---- MODULE Spec2Model ----
(***************************************************************************)
(* Canvas MCP tool handlers over the request Gateway (make_canvas_request, *)
(* fetch_all_paginated_results) and the course identifier cache            *)
(* (get_course_id, get_course_code).                                       *)
(*                                                                         *)
(* The process state is the identifier cache.  Every operation runs to     *)
(* completion before the next one starts (tool invocations are serialized  *)
(* by the host), so one action is one whole invocation; `op` records what  *)
(* the invocation was given, the network attempts it made, in order, and   *)
(* what it returned or raised, until the caller has taken the result.      *)
(***************************************************************************)
EXTENDS Integers, Sequences, FiniteSets, TLC

VARIABLES cache, op

vars == <<cache, op>>

(* ------------------------------ bounds -------------------------------- *)

\* longest course identifier string, in characters
MaxIdLen == 2
\* most pages the server splits one collection into
MaxPages == 2
\* most elements the server puts on one page
MaxPageLen == 2
\* most courses the course search returns
MaxSearchResults == 2

\* entries of a discussion topic
MaxEntries == 2

\* rows of a reply of the analytics endpoints
MaxRows == 2

(* ------------------------------ strings ------------------------------- *)

\* A string is a sequence of one-character strings.
Digits == {"0", "1", "2", "3", "4", "5", "6", "7", "8", "9"}

Alphabet == {"1", "C"}

SeqsUpTo(S, n) == UNION {[1..k -> S] : k \in 0..n}

\* str.isdigit(): non-empty and every character a digit
isdigit(s) == Len(s) > 0 /\ \A i \in 1..Len(s) : s[i] \in Digits

(* --------------------------- JSON payloads ---------------------------- *)

\* A payload is null (no body), an object (the set of its keys that hold a
\* truthy value) or an array of items.
Null == [k |-> "null", fields |-> {}, items |-> <<>>]

Obj(F) == [k |-> "object", fields |-> F, items |-> <<>>]

Arr(s) == [k |-> "array", fields |-> {}, items |-> s]

(* ------------------------- network replies ---------------------------- *)

\* What one network round trip ends in: a 2xx response with a body, a
\* non-2xx response, or a transport exception.
OkReply(p) == [t |-> "ok", status |-> 200, body |-> p]

HttpError(s) == [t |-> "http", status |-> s, body |-> Null]

TransportError == [t |-> "transport", status |-> 0, body |-> Null]

NoReply == [t |-> "none", status |-> 0, body |-> Null]

FailureReplies == {HttpError(404), TransportError}

\* The message of a Failure: names what went wrong, with the status code.
NoError == [kind |-> "none", status |-> 0]

ErrorMessage(reply) == [kind |-> reply.t, status |-> reply.status]

(* --------------------------- RequestResult ---------------------------- *)

\* Failure is the dict {"error": message}; Success is the decoded payload.
Failure(m) == [tag |-> "Failure", error |-> m, payload |-> Null]

Success(p) == [tag |-> "Success", error |-> NoError, payload |-> p]

\* isinstance(x, dict) and "error" in x
IsErrorDict(r) == r.tag = "Failure"

\* isinstance(x, dict)
IsDict(r) == r.tag = "Failure" \/ r.payload.k = "object"

\* isinstance(x, list)
IsList(r) == r.tag = "Success" /\ r.payload.k = "array"

\* not x
Falsy(r) ==
    /\ r.tag = "Success"
    /\ \/ r.payload.k = "null"
       \/ r.payload.k = "object" /\ r.payload.fields = {}
       \/ r.payload.k = "array" /\ r.payload.items = <<>>

\* x.get(f) is truthy, for a dict x
Has(r, f) == r.tag = "Success" /\ r.payload.k = "object" /\ f \in r.payload.fields

\* the list a successful paginated fetch returned
ItemsOf(r) == IF IsList(r) THEN r.payload.items ELSE <<>>

(* ------------------------------ Gateway ------------------------------- *)

\* One entry of the invocation's network log: one round trip.
Attempt(method, path, reply) ==
    [method |-> method, path |-> path, ok |-> reply.t = "ok",
     body |-> IF reply.t = "ok" THEN reply.body.k ELSE "none",
     error |-> IF reply.t = "ok" THEN NoError ELSE ErrorMessage(reply)]

\* variant: a failed attempt is tried once more before giving up
make_canvas_request_retrying(method, path, reply) ==
    IF reply.t = "ok"
    THEN [result |-> Success(reply.body), calls |-> <<Attempt(method, path, reply)>>]
    ELSE [result |-> Failure(ErrorMessage(reply)),
          calls |-> <<Attempt(method, path, reply), Attempt(method, path, reply)>>]

\* request(method, path): exactly one round trip; a non-2xx response or a
\* transport exception comes back as a Failure value.
make_canvas_request(method, path, reply) ==
    IF reply.t = "ok"
    THEN [result |-> Success(reply.body), calls |-> <<Attempt(method, path, reply)>>]
    ELSE [result |-> Failure(ErrorMessage(reply)), calls |-> <<Attempt(method, path, reply)>>]

\* variant: a failed page is skipped and the pages fetched so far are kept
RECURSIVE fetch_pages_partial(_, _, _, _, _)
fetch_pages_partial(path, pages, k, results, calls) ==
    LET response == make_canvas_request("get", path, pages[k])
        calls2 == calls \o response.calls
        results2 == IF IsErrorDict(response.result) THEN results
                    ELSE results \o response.result.payload.items
    IN  IF k = Len(pages)
        THEN [result |-> Success(Arr(results2)), calls |-> calls2]
        ELSE fetch_pages_partial(path, pages, k + 1, results2, calls2)

RECURSIVE fetch_pages(_, _, _, _, _)
\* The page loop of fetch_all: `pages` is what the server answers for page
\* 1, 2, ...; page k names a next page iff k < Len(pages).
fetch_pages(path, pages, k, results, calls) ==
    LET response == make_canvas_request("get", path, pages[k])
        calls2 == calls \o response.calls
    IN  IF IsErrorDict(response.result)
        THEN [result |-> response.result, calls |-> calls2]
        ELSE LET results2 == results \o response.result.payload.items
             IN  IF k = Len(pages)
                 THEN [result |-> Success(Arr(results2)), calls |-> calls2]
                 ELSE fetch_pages(path, pages, k + 1, results2, calls2)

\* variant: failed pages are skipped instead of ending the fetch
fetch_all_paginated_results_partial(path, pages) ==
    fetch_pages_partial(path, pages, 1, <<>>, <<>>)

\* variant: only the first page is fetched, the next-page link is not followed
fetch_all_paginated_results_first_page(path, pages) ==
    fetch_pages(path, <<pages[1]>>, 1, <<>>, <<>>)

\* fetch_all(path): GET page after page, concatenating; the first failing
\* page ends the fetch and its Failure is the whole result.
fetch_all_paginated_results(path, pages) ==
    fetch_pages(path, pages, 1, <<>>, <<>>)

(* ----------------------- identifier resolver -------------------------- *)

\* A course identifier is an integer or a string; either way its text.
IntId(s) == [t |-> "int", s |-> s]

StrId(s) == [t |-> "str", s |-> s]

None == [t |-> "none", s |-> <<>>]

\* The courses the upstream knows: ids are unique, codes need not be.
Catalogue ==
    { [id |-> <<"7">>, course_code |-> <<"C">>],
      [id |-> <<"8">>, course_code |-> <<"C", "C">>],
      [id |-> <<"9">>, course_code |-> <<"C", "C">>] }

\* cache: the codes resolved so far, each with its course id.

\* "already numeric (or numeric-looking)"
IsNumeric(identifier) == identifier.t = "int" \/ isdigit(identifier.s)

\* whether get_course_id will go to the network for this identifier
NeedsSearch(c, identifier) == ~IsNumeric(identifier) /\ identifier.s \notin DOMAIN c

\* the first course of the search results whose code is the one asked for
FirstMatch(courses, code) ==
    LET hits == {i \in 1..Len(courses) : courses[i].course_code = code}
    IN  IF hits = {} THEN 0 ELSE CHOOSE i \in hits : \A j \in hits : i <= j

\* variant: the looked-up id is returned but never stored
get_course_id_forgetful(c, identifier, search) ==
    IF IsNumeric(identifier)
    THEN [id |-> identifier, cache |-> c, calls |-> <<>>]
    ELSE IF identifier.s \in DOMAIN c
    THEN [id |-> IntId(c[identifier.s]), cache |-> c, calls |-> <<>>]
    ELSE LET response == make_canvas_request("get", "/courses", search)
             courses == ItemsOf(response.result)
             m == FirstMatch(courses, identifier.s)
         IN  IF m = 0
             THEN [id |-> None, cache |-> c, calls |-> response.calls]
             ELSE [id |-> IntId(courses[m].id), cache |-> c, calls |-> response.calls]

\* variant: the cache holds the latest mapping only
get_course_id_evicting(c, identifier, search) ==
    IF IsNumeric(identifier)
    THEN [id |-> identifier, cache |-> c, calls |-> <<>>]
    ELSE IF identifier.s \in DOMAIN c
    THEN [id |-> IntId(c[identifier.s]), cache |-> c, calls |-> <<>>]
    ELSE LET response == make_canvas_request("get", "/courses", search)
             courses == ItemsOf(response.result)
             m == FirstMatch(courses, identifier.s)
         IN  IF m = 0
             THEN [id |-> None, cache |-> c, calls |-> response.calls]
             ELSE [id |-> IntId(courses[m].id),
                   cache |-> [x \in {identifier.s} |-> courses[m].id],
                   calls |-> response.calls]

\* variant: a numeric-looking string is looked up like a course code
get_course_id_always_search(c, identifier, search) ==
    LET response == make_canvas_request("get", "/courses", search)
    IN  [id |-> identifier, cache |-> c, calls |-> response.calls]

\* resolve(identifier): a numeric identifier is returned unchanged; a code
\* is looked up in the cache and, on a miss, searched upstream with one
\* request, stored and returned.  No matching course: NotFound (None).
get_course_id(c, identifier, search) ==
    IF IsNumeric(identifier)
    THEN [id |-> identifier, cache |-> c, calls |-> <<>>]
    ELSE IF identifier.s \in DOMAIN c
    THEN [id |-> IntId(c[identifier.s]), cache |-> c, calls |-> <<>>]
    ELSE LET response == make_canvas_request("get", "/courses", search)
             courses == ItemsOf(response.result)
             m == FirstMatch(courses, identifier.s)
         IN  IF m = 0
             THEN [id |-> None, cache |-> c, calls |-> response.calls]
             ELSE [id |-> IntId(courses[m].id),
                   cache |-> [x \in DOMAIN c \cup {identifier.s} |->
                                 IF x = identifier.s THEN courses[m].id ELSE c[x]],
                   calls |-> response.calls]

\* variant: the reverse lookup answers with the id's own text
get_course_code_echo(c, course_id) == StrId(course_id.s)

\* display_code(id): the code cached for this id, or null
get_course_code(c, course_id) ==
    LET known == {code \in DOMAIN c : c[code] = course_id.s}
    IN  IF known = {} THEN None ELSE StrId(CHOOSE code \in known : TRUE)


(* --------------------------- tool handlers ---------------------------- *)

\* What a handler hands back: a string (the literal words it starts with,
\* the Failure message it carries, the course it names in its header and
\* the options it enumerates), or an exception that leaves the handler.
Str(class, text, error, display, options) ==
    [kind |-> "str", class |-> class, text |-> text, error |-> error,
     display |-> display, options |-> options]

Raised(exc) ==
    [kind |-> "raise", class |-> "exception", text |-> <<exc>>, error |-> NoError,
     display |-> None, options |-> <<>>]

Done(c, calls, ret) == [cache |-> c, calls |-> calls, ret |-> ret]

\* return f"Error <doing> <what>: {x['error']}"
ErrorReturn(c, calls, text, result) ==
    Done(c, calls, Str("error", text, result.error, None, <<>>))

\* return f"Error: Invalid ... Valid options: {', '.join(valid)}" and the like
Rejected(c, calls, text, valid) ==
    Done(c, calls, Str("validation", text, NoError, None, valid))

\* a message that is not a report: nothing found, nothing to do
Message(c, calls, text) ==
    Done(c, calls, Str("message", text, NoError, None, <<>>))

\* course_display = await get_course_code(course_id) or course_identifier
\* variant: the header always shows the identifier as the caller passed it
course_display_as_passed(c, course_id, course_identifier) == course_identifier

course_display(c, course_id, course_identifier) ==
    LET code == get_course_code(c, course_id)
    IN  IF code # None THEN code ELSE course_identifier

\* the report, with the course its header names
Report(c, calls, text, course_id, course_identifier) ==
    Done(c, calls, Str("report", text, NoError,
                       course_display(c, course_id, course_identifier), <<>>))

\* a result with the figures its text reports
WithData(h, data) ==
    [h EXCEPT !.ret = [f \in DOMAIN h.ret \cup {"data"} |->
                          IF f = "data" THEN data ELSE h.ret[f]]]

\* a result that names no course through the cache
Plain(c, calls, text) ==
    Done(c, calls, Str("report", text, NoError, None, <<>>))

\* a result that ends with f"Course: {course_id}": the resolved id itself
WithCourse(c, calls, text, course_id) ==
    Done(c, calls, Str("report", text, NoError, course_id, <<>>))

\* x.get(...) on a value that is not a dict
AttributeError(c, calls) == Done(c, calls, Raised("AttributeError"))

Range(s) == {s[i] : i \in 1..Len(s)}

(* ------------------------------ analytics ----------------------------- *)

valid_sort_options ==
    << "name", "name_descending", "score", "score_descending",
       "participations", "participations_descending",
       "page_views", "page_views_descending" >>

valid_report_types ==
    << "grade_export_csv", "student_assignment_outcome_map_csv", "provisioning_csv" >>

\* str(n) for a one-digit id
str(n) == <<(<<"1", "2", "3", "4", "5", "6", "7", "8", "9">>)[n]>>

\* str(x.get(key, "")): the empty string when the key is absent
str_get(x, key) == IF key \in DOMAIN x THEN str(x[key]) ELSE <<>>

\* x.get(key, []) for a list-valued key
list_get(x, key) == IF key \in DOMAIN x THEN x[key] ELSE <<>>

\* a JSON number and JSON null, as values of a field
Num(n) == [t |-> "num", v |-> n]

JNull == [t |-> "null", v |-> 0]

\* x.get(key, 0) or 0: an absent key and a null value both count as 0
get_or_0(x, key) == IF key \in DOMAIN x /\ x[key].t = "num" THEN x[key].v ELSE 0

\* student.get("name", f"Student {student.get('id', 'Unknown')}")
student_name(student) ==
    IF "name" \in DOMAIN student THEN student.name
    ELSE <<"Student">> \o (IF "id" \in DOMAIN student THEN str(student.id) ELSE <<"Unknown">>)

\* student.get("tardiness_breakdown", {}) is a dict: absent, or an object
has_tardiness_dict(student) ==
    "tardiness_breakdown" \in DOMAIN student => student.tardiness_breakdown.t = "object"

\* tardiness.get(key, 0) or 0
tardiness_count(student, key) ==
    IF "tardiness_breakdown" \in DOMAIN student
    THEN get_or_0(student.tardiness_breakdown.fields, key)
    ELSE 0

\* the name of every student of the list that passes the test, in list order
names_where(students, Test(_)) ==
    LET listed == SelectSeq(students, Test)
    IN  [i \in 1..Len(listed) |-> student_name(listed[i])]

\* variant: a student without activity is listed under Low Engagement as well
engagement_lists_overlapping(students) ==
    LET NoActivity(st) == get_or_0(st, "page_views") = 0 /\ get_or_0(st, "participations") = 0
        LowEngagement(st) ==
            get_or_0(st, "page_views") < 10 /\ get_or_0(st, "participations") < 5
        HighTardiness(st) ==
            tardiness_count(st, "missing") > 2 \/ tardiness_count(st, "late") > 3
    IN  [total_students |-> Len(students),
         no_activity |-> names_where(students, NoActivity),
         low_engagement |-> names_where(students, LowEngagement),
         high_tardiness |-> names_where(students, HighTardiness)]

\* the three attention lists of the summary
engagement_lists(students) ==
    LET NoActivity(st) == get_or_0(st, "page_views") = 0 /\ get_or_0(st, "participations") = 0
        LowEngagement(st) ==
            /\ ~NoActivity(st)
            /\ get_or_0(st, "page_views") < 10 /\ get_or_0(st, "participations") < 5
        HighTardiness(st) ==
            tardiness_count(st, "missing") > 2 \/ tardiness_count(st, "late") > 3
    IN  [total_students |-> Len(students),
         no_activity |-> names_where(students, NoActivity),
         low_engagement |-> names_where(students, LowEngagement),
         high_tardiness |-> names_where(students, HighTardiness)]

get_course_student_summaries(c, course_identifier, search, sort_by, pages) ==
    LET r == get_course_id(c, course_identifier, search)
    IN  IF sort_by \notin Range(valid_sort_options)
        THEN Rejected(r.cache, r.calls,
                      <<"Error", ":", "Invalid", "sort_by", "option">>, valid_sort_options)
        ELSE
        LET students == fetch_all_paginated_results(
                            "/courses/{course_id}/analytics/student_summaries", pages)
            calls == r.calls \o students.calls
        IN  IF IsErrorDict(students.result)
            THEN ErrorReturn(r.cache, calls,
                     <<"Error", "fetching", "student", "summaries", ":">>, students.result)
            ELSE IF Falsy(students.result)
            THEN Message(r.cache, calls, <<"No", "student", "analytics", "data">>)
            \* tardiness.get(...) on a tardiness_breakdown that is null
            ELSE IF \E i \in 1..Len(ItemsOf(students.result)) :
                        ~has_tardiness_dict(ItemsOf(students.result)[i])
            THEN AttributeError(r.cache, calls)
            ELSE WithData(Report(r.cache, calls, <<"Student", "Analytics", "Summary", "for">>,
                                 r.id, course_identifier),
                          engagement_lists(ItemsOf(students.result)))

get_student_activity(c, course_identifier, search, reply) ==
    LET r == get_course_id(c, course_identifier, search)
        response == make_canvas_request(
            "get", "/courses/{course_id}/analytics/users/{student_id}/activity", reply)
        calls == r.calls \o response.calls
    IN  IF IsErrorDict(response.result)
        THEN ErrorReturn(r.cache, calls,
                 <<"Error", "fetching", "student", "activity", ":">>, response.result)
        ELSE IF Falsy(response.result)
        THEN Message(r.cache, calls, <<"No", "activity", "data", "available">>)
        ELSE IF ~IsDict(response.result)
        THEN AttributeError(r.cache, calls)
        ELSE Report(r.cache, calls, <<"Student", "Activity", "for", "Course">>,
                    r.id, course_identifier)

\* sum(values) of a list of numbers
RECURSIVE Sum(_)

Sum(values) == IF values = <<>> THEN 0 ELSE Head(values) + Sum(Tail(values))

\* n / y rounded to the nearest integer, halves to the even one (y > 0)
rounded(n, y) ==
    LET q == n \div y
        r == n % y
    IN  IF 2 * r > y THEN q + 1
        ELSE IF 2 * r = y THEN q + (q % 2)
        ELSE q

\* what an arithmetic expression of a report comes to: a figure, the text
\* "N/A", the fallback line, or the ZeroDivisionError of a division by 0
Figure(v) == [kind |-> "number", v |-> v]

NotApplicable == [kind |-> "N/A", v |-> 0]

Fallback == [kind |-> "fallback", v |-> 0]

ZeroDivisionError == [kind |-> "ZeroDivisionError", v |-> 0]

\* f"{x / y * 100:.1f}": the percentage in tenths; x / 0 raises
truediv_percent(x, y) ==
    IF y = 0 THEN ZeroDivisionError ELSE Figure(rounded(1000 * x, y))

\* the report whose arithmetic raised does not come back
ZeroDivision(c, calls) == Done(c, calls, Raised("ZeroDivisionError"))

\* variant: the overall grade is computed whatever the total
overall_percent_unguarded(total_points_earned, total_points_possible) ==
    truediv_percent(total_points_earned, total_points_possible)

\* the overall grade of the student: 0 when no points were possible
overall_percent(total_points_earned, total_points_possible) ==
    IF total_points_possible > 0
    THEN truediv_percent(total_points_earned, total_points_possible)
    ELSE Figure(0)

\* a submission with a score that is not None
is_graded(assignment) ==
    /\ "submission" \in DOMAIN assignment
    /\ "score" \in DOMAIN assignment.submission
    /\ assignment.submission.score.t = "num"

\* variant: a submission without a score is never taken as submitted
is_pending_never(assignment) == FALSE

\* no score yet, but a submitted_at
is_pending(assignment) ==
    /\ "submission" \in DOMAIN assignment
    /\ ~is_graded(assignment)
    /\ "submitted_at" \in DOMAIN assignment.submission

\* the two else branches: no submission, or one with neither score nor submitted_at
is_missing(assignment) ==
    \/ "submission" \notin DOMAIN assignment
    \/ DOMAIN assignment.submission = {}
    \/ ~is_graded(assignment) /\ ~is_pending(assignment)

\* submission.get("late", False) of a graded submission
is_late(assignment) ==
    /\ is_graded(assignment)
    /\ "late" \in DOMAIN assignment.submission
    /\ assignment.submission.late

\* the counts and the grade of the student's assignments
student_assignment_figures(response) ==
    LET graded == SelectSeq(response, is_graded)
        scores == [i \in 1..Len(graded) |-> graded[i].submission.score.v]
        possible == [i \in 1..Len(graded) |-> get_or_0(graded[i], "points_possible")]
        total_points_earned == Sum(scores)
        total_points_possible == Sum(possible)
        submitted_count == Len(graded) + Len(SelectSeq(response, is_pending))
    IN  [total_assignments |-> Len(response),
         submitted_count |-> submitted_count,
         missing_count |-> Len(SelectSeq(response, is_missing)),
         late_count |-> Len(SelectSeq(response, is_late)),
         total_points_earned |-> total_points_earned,
         total_points_possible |-> total_points_possible,
         percents |-> [i \in 1..Len(graded) |->
                          IF possible[i] > 0
                          THEN truediv_percent(scores[i], possible[i])
                          ELSE NotApplicable],
         overall_percent |-> overall_percent(total_points_earned, total_points_possible)]

get_student_assignment_data(c, course_identifier, search, reply) ==
    LET r == get_course_id(c, course_identifier, search)
        response == make_canvas_request(
            "get", "/courses/{course_id}/analytics/users/{student_id}/assignments", reply)
        calls == r.calls \o response.calls
        figures == student_assignment_figures(ItemsOf(response.result))
    IN  IF IsErrorDict(response.result)
        THEN ErrorReturn(r.cache, calls,
                 <<"Error", "fetching", "student", "assignments", ":">>, response.result)
        ELSE IF Falsy(response.result) \/ ~IsList(response.result)
        THEN Message(r.cache, calls, <<"No", "assignment", "analytics", "data">>)
        ELSE IF \/ figures.overall_percent = ZeroDivisionError
                \/ ZeroDivisionError \in Range(figures.percents)
        THEN ZeroDivision(r.cache, calls)
        ELSE WithData(Report(r.cache, calls, <<"Student", "Assignment", "Analytics", "for">>,
                             r.id, course_identifier),
                      figures)

get_student_communication(c, course_identifier, search, reply) ==
    LET r == get_course_id(c, course_identifier, search)
        response == make_canvas_request(
            "get", "/courses/{course_id}/analytics/users/{student_id}/communication", reply)
        calls == r.calls \o response.calls
    IN  IF IsErrorDict(response.result)
        THEN ErrorReturn(r.cache, calls,
                 <<"Error", "fetching", "student", "communication", ":">>, response.result)
        ELSE IF Falsy(response.result)
        THEN Message(r.cache, calls, <<"No", "communication", "data", "available">>)
        ELSE Report(r.cache, calls, <<"Student", "Communication", "Analytics", "for">>,
                    r.id, course_identifier)

\* isinstance(count, (int, float)) for the count of a category of the day
counted(day_data, category) ==
    category \in DOMAIN day_data /\ category # "date" /\ day_data[category].t = "num"

\* sum(value(k) for k in keys)
SumOf(keys, value(_)) ==
    LET total[T \in SUBSET keys] ==
            IF T = {} THEN 0
            ELSE LET k == CHOOSE x \in T : TRUE
                 IN  value(k) + total[T \ {k}]
    IN  total[keys]

\* the share of a category in the activity: 0 when there was no activity
percentage(count, total_activity) ==
    IF total_activity > 0 THEN truediv_percent(count, total_activity) ELSE Figure(0)

\* the totals by category and by day, and the share of each category
activity_figures(response) ==
    LET days == 1..Len(response)
        categories == UNION {{k \in DOMAIN response[i] : counted(response[i], k)} : i \in days}
        in_day(i, k) == IF counted(response[i], k) THEN response[i][k].v ELSE 0
        category_totals ==
            [k \in categories |-> Sum([i \in days |-> in_day(i, k)])]
        daily_totals ==
            [i \in days |-> SumOf(categories, LAMBDA k : in_day(i, k))]
        total_activity == SumOf(categories, LAMBDA k : category_totals[k])
    IN  [total_activity |-> total_activity,
         days_with_activity |-> Cardinality({i \in days : daily_totals[i] > 0}),
         category_totals |-> category_totals,
         percentages |->
             [k \in categories |-> percentage(category_totals[k], total_activity)]]

get_course_activity(c, course_identifier, search, reply) ==
    LET r == get_course_id(c, course_identifier, search)
        response == make_canvas_request(
            "get", "/courses/{course_id}/analytics/activity", reply)
        calls == r.calls \o response.calls
        figures == activity_figures(ItemsOf(response.result))
    IN  IF IsErrorDict(response.result)
        THEN ErrorReturn(r.cache, calls,
                 <<"Error", "fetching", "course", "activity", ":">>, response.result)
        ELSE IF Falsy(response.result) \/ ~IsList(response.result)
        THEN Message(r.cache, calls, <<"No", "course", "activity", "data">>)
        ELSE IF \E k \in DOMAIN figures.percentages :
                    figures.percentages[k] = ZeroDivisionError
        THEN ZeroDivision(r.cache, calls)
        ELSE WithData(Report(r.cache, calls, <<"Course", "Activity", "Analytics", "for">>,
                             r.id, course_identifier),
                      figures)

\* the Late Submissions line: the plain "Late Submissions: 0" when nothing was submitted
late_submissions(total_late, total_submissions) ==
    IF total_submissions > 0 THEN truediv_percent(total_late, total_submissions) ELSE Fallback

\* the submissions of the course by tardiness
statistics_figures(response) ==
    LET on_time == [i \in 1..Len(response) |-> tardiness_count(response[i], "on_time")]
        late == [i \in 1..Len(response) |-> tardiness_count(response[i], "late")]
        total_submissions == Sum(on_time) + Sum(late)
        total_late == Sum(late)
    IN  [total_assignments |-> Len(response),
         total_submissions |-> total_submissions,
         total_late |-> total_late,
         late_submissions |-> late_submissions(total_late, total_submissions)]

get_assignment_statistics(c, course_identifier, search, reply) ==
    LET r == get_course_id(c, course_identifier, search)
        response == make_canvas_request(
            "get", "/courses/{course_id}/analytics/assignments", reply)
        calls == r.calls \o response.calls
        assignments == ItemsOf(response.result)
    IN  IF IsErrorDict(response.result)
        THEN ErrorReturn(r.cache, calls,
                 <<"Error", "fetching", "assignment", "statistics", ":">>, response.result)
        ELSE IF Falsy(response.result) \/ ~IsList(response.result)
        THEN Message(r.cache, calls, <<"No", "assignment", "statistics", "available">>)
        ELSE IF \E i \in 1..Len(assignments) : ~has_tardiness_dict(assignments[i])
        THEN AttributeError(r.cache, calls)
        ELSE IF statistics_figures(assignments).late_submissions = ZeroDivisionError
        THEN ZeroDivision(r.cache, calls)
        ELSE WithData(Report(r.cache, calls, <<"Assignment", "Statistics", "for">>,
                             r.id, course_identifier),
                      statistics_figures(assignments))

start_course_report(c, course_identifier, search, report_type, reply) ==
    LET r == get_course_id(c, course_identifier, search)
    IN  IF report_type \notin Range(valid_report_types)
        THEN Rejected(r.cache, r.calls,
                      <<"Error", ":", "Invalid", "report", "type">>, valid_report_types)
        ELSE
        LET response == make_canvas_request(
                "post", "/courses/{course_id}/reports/{report_type}", reply)
            calls == r.calls \o response.calls
        IN  IF IsErrorDict(response.result)
            THEN ErrorReturn(r.cache, calls,
                     <<"Error", "starting", "report", ":">>, response.result)
            ELSE IF Falsy(response.result)
            THEN Message(r.cache, calls, <<"Failed", "to", "start", "report">>)
            ELSE IF ~IsDict(response.result)
            THEN AttributeError(r.cache, calls)
            ELSE Report(r.cache, calls, <<"Report", "Started", "for">>,
                        r.id, course_identifier)

\* response.get("status", "unknown")
status_of(response) ==
    IF "status" \in DOMAIN response.payload THEN response.payload.status ELSE "unknown"

\* response.get("attachment", {}) is truthy: a non-empty object
has_attachment(response) ==
    "attachment" \in DOMAIN response.payload /\ response.payload.attachment = "file"

\* variant: a complete report always shows its download section
status_lines_without_attachment_check(status, attachment) ==
    IF status = "complete" THEN <<"Report Complete!", "Download URL:">>
    ELSE IF status = "running" THEN <<"Report is still generating...">>
    ELSE IF status = "error" THEN <<"Report generation failed!", "Error:">>
    ELSE <<"Current status:">>

\* the lines that follow the header of the status report
status_lines(status, attachment) ==
    IF status = "complete" /\ attachment THEN <<"Report Complete!", "Download URL:">>
    ELSE IF status = "running" THEN <<"Report is still generating...">>
    ELSE IF status = "error" THEN <<"Report generation failed!", "Error:">>
    ELSE <<"Current status:">>

get_report_status(c, course_identifier, search, reply) ==
    LET r == get_course_id(c, course_identifier, search)
        response == make_canvas_request(
            "get", "/courses/{course_id}/reports/{report_type}/{report_id}", reply)
        calls == r.calls \o response.calls
    IN  IF IsErrorDict(response.result)
        THEN ErrorReturn(r.cache, calls,
                 <<"Error", "checking", "report", "status", ":">>, response.result)
        ELSE IF Falsy(response.result)
        THEN Message(r.cache, calls, <<"Failed", "to", "get", "report", "status">>)
        ELSE IF ~IsDict(response.result)
        THEN AttributeError(r.cache, calls)
        ELSE WithData(Report(r.cache, calls, <<"Report", "Status", "for">>,
                             r.id, course_identifier),
                      [status |-> status_of(response.result),
                       lines |-> status_lines(status_of(response.result),
                                              has_attachment(response.result))])

(* ------------------------ discussion analytics ------------------------ *)

\* participation[user_id][field] += 1, with the entry created when absent
Bump(participation, user_id, field) ==
    LET p == IF user_id \in DOMAIN participation THEN participation
             ELSE [u \in DOMAIN participation \cup {user_id} |->
                      IF u = user_id THEN [posts |-> 0, replies |-> 0]
                      ELSE participation[u]]
    IN  [p EXCEPT ![user_id][field] = @ + 1]

RECURSIVE count_replies(_, _)
\* for reply in entry.get("recent_replies", []): a reply without user_id is skipped
count_replies(participation, replies) ==
    IF replies = <<>> THEN participation
    ELSE LET reply_user_id == str_get(replies[1], "user_id")
         IN  count_replies(IF reply_user_id = <<>> THEN participation
                           ELSE Bump(participation, reply_user_id, "replies"),
                           Tail(replies))

RECURSIVE count_entries(_, _)
\* for entry in entries_list: an entry without user_id is skipped, replies and all
count_entries(participation, entries_list) ==
    IF entries_list = <<>> THEN participation
    ELSE LET user_id == str_get(entries_list[1], "user_id")
         IN  count_entries(
                 IF user_id = <<>> THEN participation
                 ELSE count_replies(Bump(participation, user_id, "posts"),
                                    list_get(entries_list[1], "recent_replies")),
                 Tail(entries_list))

RECURSIVE merge_view_replies_counts_every_reply(_, _)
\* variant: every reply seen in the view is counted
merge_view_replies_counts_every_reply(participation, replies) ==
    IF replies = <<>> THEN participation
    ELSE LET reply_user_id == str_get(replies[1], "user_id")
         IN  merge_view_replies_counts_every_reply(
                 IF reply_user_id = <<>> THEN participation
                 ELSE Bump(participation, reply_user_id, "replies"),
                 Tail(replies))

RECURSIVE merge_view_replies(_, _)
\* a reply seen in the view counts once, and only for a user with no reply yet
merge_view_replies(participation, replies) ==
    IF replies = <<>> THEN participation
    ELSE LET reply_user_id == str_get(replies[1], "user_id")
             p == IF reply_user_id \in DOMAIN participation THEN participation
                  ELSE [u \in DOMAIN participation \cup {reply_user_id} |->
                           IF u = reply_user_id THEN [posts |-> 0, replies |-> 0]
                           ELSE participation[u]]
         IN  merge_view_replies(
                 IF reply_user_id = <<>> THEN participation
                 ELSE IF p[reply_user_id].replies = 0
                 THEN Bump(p, reply_user_id, "replies")
                 ELSE p,
                 Tail(replies))

RECURSIVE merge_view(_, _)
\* for view_entry in view_response.get("view", [])
merge_view(participation, view) ==
    IF view = <<>> THEN participation
    ELSE merge_view(merge_view_replies(participation, list_get(view[1], "replies")),
                    Tail(view))

RECURSIVE student_ids(_)
\* the keys of {str(s.get("id", "")): ... for s in student_list}, in insertion order
student_ids(student_list) ==
    IF student_list = <<>> THEN <<>>
    ELSE LET front == student_ids(SubSeq(student_list, 1, Len(student_list) - 1))
             last == str_get(student_list[Len(student_list)], "id")
         IN  IF last \in Range(front) THEN front ELSE Append(front, last)

\* participation.get(student_id, {"posts": 0, "replies": 0})
participation_of(participation, student_id) ==
    IF student_id \in DOMAIN participation THEN participation[student_id]
    ELSE [posts |-> 0, replies |-> 0]

RECURSIVE join(_)
\* ",".join(ids)
join(ids) ==
    IF ids = <<>> THEN <<>>
    ELSE IF Len(ids) = 1 THEN ids[1]
    ELSE ids[1] \o <<",">> \o join(Tail(ids))

\* f"{x / y * 100:.0f}" for 0 <= x <= y, y > 0: nearest integer, a half to even
percent(x, y) ==
    LET q == (100 * x) \div y
        r == (100 * x) % y
    IN  IF 2 * r > y THEN q + 1
        ELSE IF 2 * r = y THEN q + (q % 2)
        ELSE q

\* f"{x / y * 100:.0f}": the percentage in whole percents; x / 0 raises
truediv_whole_percent(x, y) ==
    IF y = 0 THEN ZeroDivisionError ELSE Figure(percent(x, y))

\* variant: whoever posted is listed under Posted Only, replies or not
categorize_posted_twice(participation, student_list) ==
    LET ids == student_ids(student_list)
        has_posts(sid) == participation_of(participation, sid).posts > 0
        has_replies(sid) == participation_of(participation, sid).replies > 0
        IsFull(sid) == has_posts(sid) /\ has_replies(sid)
        IsPoster(sid) == has_posts(sid)
        IsReplier(sid) == ~IsFull(sid) /\ ~has_posts(sid) /\ has_replies(sid)
        IsSilent(sid) == ~IsFull(sid) /\ ~has_posts(sid) /\ ~has_replies(sid)
        silent == SelectSeq(ids, IsSilent)
        total_students == Len(ids)
        total_participants == total_students - Len(silent)
    IN  [participation |-> participation,
         student_ids |-> ids,
         full_participants |-> SelectSeq(ids, IsFull),
         posters_only |-> SelectSeq(ids, IsPoster),
         repliers_only |-> SelectSeq(ids, IsReplier),
         silent |-> silent,
         silent_ids |-> join(silent),
         total_students |-> total_students,
         total_participants |-> total_participants,
         overview |-> IF total_students > 0
                      THEN truediv_whole_percent(total_participants, total_students)
                      ELSE Figure(0)]

\* the four lists of the summary and the figures of its overview
categorize(participation, student_list) ==
    LET ids == student_ids(student_list)
        has_posts(sid) == participation_of(participation, sid).posts > 0
        has_replies(sid) == participation_of(participation, sid).replies > 0
        IsFull(sid) == has_posts(sid) /\ has_replies(sid)
        IsPoster(sid) == ~IsFull(sid) /\ has_posts(sid)
        IsReplier(sid) == ~IsFull(sid) /\ ~has_posts(sid) /\ has_replies(sid)
        IsSilent(sid) == ~IsFull(sid) /\ ~has_posts(sid) /\ ~has_replies(sid)
        silent == SelectSeq(ids, IsSilent)
        total_students == Len(ids)
        total_participants == total_students - Len(silent)
    IN  [participation |-> participation,
         student_ids |-> ids,
         full_participants |-> SelectSeq(ids, IsFull),
         posters_only |-> SelectSeq(ids, IsPoster),
         repliers_only |-> SelectSeq(ids, IsReplier),
         silent |-> silent,
         silent_ids |-> join(silent),
         total_students |-> total_students,
         total_participants |-> total_participants,
         overview |-> IF total_students > 0
                      THEN truediv_whole_percent(total_participants, total_students)
                      ELSE Figure(0)]

get_discussion_participation_summary(c, course_identifier, search, studentPages, entryPages, topicReply, viewReply) ==
    LET r == get_course_id(c, course_identifier, search)
        students == fetch_all_paginated_results("/courses/{course_id}/users", studentPages)
        calls1 == r.calls \o students.calls
    IN  IF IsErrorDict(students.result)
        THEN ErrorReturn(r.cache, calls1, <<"Error", "fetching", "students", ":">>,
                         students.result)
        ELSE
        LET entries == fetch_all_paginated_results(
                "/courses/{course_id}/discussion_topics/{topic_id}/entries", entryPages)
            calls2 == calls1 \o entries.calls
        IN  IF IsErrorDict(entries.result)
            THEN ErrorReturn(r.cache, calls2,
                     <<"Error", "fetching", "discussion", "entries", ":">>, entries.result)
            ELSE
            LET topic_response == make_canvas_request(
                    "get", "/courses/{course_id}/discussion_topics/{topic_id}", topicReply)
                calls3 == calls2 \o topic_response.calls
            IN  \* not isinstance(topic_response, dict) or "error" not in topic_response
                IF ~IsErrorDict(topic_response.result) /\ ~IsDict(topic_response.result)
                THEN AttributeError(r.cache, calls3)
                ELSE
                \* the /view request sits in try/except: whatever it gives is absorbed
                LET view_response == make_canvas_request(
                        "get", "/courses/{course_id}/discussion_topics/{topic_id}/view",
                        viewReply)
                    calls4 == calls3 \o view_response.calls
                    participation == count_entries(<<>>, ItemsOf(entries.result))
                    \* "error" not in view_response, then view_response.get("view", [])
                    merged == IF Has(view_response.result, "view")
                              THEN merge_view(participation, view_response.result.payload.items)
                              ELSE participation
                    figures == categorize(merged, ItemsOf(students.result))
                IN  IF figures.overview = ZeroDivisionError
                    THEN ZeroDivision(r.cache, calls4)
                    ELSE WithData(Report(r.cache, calls4,
                                         <<"Discussion", "Participation", "Summary">>,
                                         r.id, course_identifier),
                                  figures)

RECURSIVE put_grades_until_failure(_, _, _, _)
\* variant: the loop ends at the first PUT that fails
put_grades_until_failure(n, putReplies, i, acc) ==
    IF i > n \/ acc.failed > 0 THEN acc
    ELSE LET response == make_canvas_request("put",
                 "/courses/{course_id}/assignments/{assignment_id}/submissions/{student_id}",
                 putReplies[i])
             failed == IsErrorDict(response.result)
         IN  put_grades_until_failure(n, putReplies, i + 1,
                 [calls |-> acc.calls \o response.calls,
                  successful |-> acc.successful + (IF failed THEN 0 ELSE 1),
                  failed |-> acc.failed + (IF failed THEN 1 ELSE 0)])

RECURSIVE put_grades(_, _, _, _)
\* the submit loop: one PUT per graded student, failures counted, none fatal
put_grades(n, putReplies, i, acc) ==
    IF i > n THEN acc
    ELSE LET response == make_canvas_request("put",
                 "/courses/{course_id}/assignments/{assignment_id}/submissions/{student_id}",
                 putReplies[i])
             failed == IsErrorDict(response.result)
         IN  put_grades(n, putReplies, i + 1,
                 [calls |-> acc.calls \o response.calls,
                  successful |-> acc.successful + (IF failed THEN 0 ELSE 1),
                  failed |-> acc.failed + (IF failed THEN 1 ELSE 0)])


\* max_points: float | None
NoPoints == [given |-> FALSE, value |-> 0]

Points(v) == [given |-> TRUE, value |-> v]

\* truth value of max_points in `max_points or ...`
Truthy(max_points) == max_points.given /\ max_points.value # 0

\* variant: max_points is taken whenever it is not None
points_possible_if_given(max_points, assignment) ==
    IF max_points.given THEN Num(max_points.value)
    ELSE IF "points_possible" \in DOMAIN assignment.payload
    THEN assignment.payload.points_possible
    ELSE Num(10)

\* max_points or assignment.get("points_possible", 10)
points_possible_of(max_points, assignment) ==
    IF Truthy(max_points) THEN Num(max_points.value)
    ELSE IF "points_possible" \in DOMAIN assignment.payload
    THEN assignment.payload.points_possible
    ELSE Num(10)

\* min(a, b) of two numbers
min(a, b) == IF b < a THEN b ELSE a

\* variant: the raw score is posted as it is
grade_of_uncapped(p, points_for_post, points_for_reply, points_possible) ==
    LET raw_score == (p.posts * points_for_post) + (p.replies * points_for_reply)
    IN  [posts |-> p.posts, replies |-> p.replies,
         raw_score |-> raw_score, final_score |-> raw_score]

\* the grades entry of one student
grade_of(p, points_for_post, points_for_reply, points_possible) ==
    LET raw_score == (p.posts * points_for_post) + (p.replies * points_for_reply)
    IN  [posts |-> p.posts, replies |-> p.replies,
         raw_score |-> raw_score, final_score |-> min(raw_score, points_possible)]

\* the grades dict, as the list of its student ids and the entry of each
calculate_grades(participation, student_list, points_for_post, points_for_reply, points_possible) ==
    LET ids == student_ids(student_list)
    IN  [student_ids |-> ids,
         grades |-> [i \in 1..Len(ids) |->
                        grade_of(participation_of(participation, ids[i]),
                                 points_for_post, points_for_reply, points_possible)]]

\* variant: the grades are submitted whatever dry_run says
grade_discussion_participation_always_submits(c, course_identifier, search, points_for_post, points_for_reply, max_points, dry_run, assignmentReply, studentPages, entryPages, putReplies) ==
    LET r == get_course_id(c, course_identifier, search)
        assignment == make_canvas_request(
            "get", "/courses/{course_id}/assignments/{assignment_id}", assignmentReply)
        students == fetch_all_paginated_results("/courses/{course_id}/users", studentPages)
        entries == fetch_all_paginated_results(
            "/courses/{course_id}/discussion_topics/{topic_id}/entries", entryPages)
        calls3 == r.calls \o assignment.calls \o students.calls \o entries.calls
        put == put_grades(Len(student_ids(ItemsOf(students.result))), putReplies, 1,
                   [calls |-> <<>>, successful |-> 0, failed |-> 0])
    IN  IF IsErrorDict(assignment.result)
        THEN ErrorReturn(r.cache, r.calls \o assignment.calls,
                 <<"Error", "fetching", "assignment", ":">>, assignment.result)
        ELSE WithData(Report(r.cache, calls3 \o put.calls,
                          (IF dry_run THEN <<"DRY", "RUN", "-">> ELSE <<>>)
                              \o <<"Discussion", "Participation", "Grading">>,
                          r.id, course_identifier),
                      [points_possible |-> Num(10), student_ids |-> <<>>, grades |-> <<>>,
                       successful |-> put.successful, failed |-> put.failed])

grade_discussion_participation(c, course_identifier, search, points_for_post, points_for_reply, max_points, dry_run, assignmentReply, studentPages, entryPages, putReplies) ==
    LET r == get_course_id(c, course_identifier, search)
        assignment == make_canvas_request(
            "get", "/courses/{course_id}/assignments/{assignment_id}", assignmentReply)
        calls1 == r.calls \o assignment.calls
    IN  IF IsErrorDict(assignment.result)
        THEN ErrorReturn(r.cache, calls1, <<"Error", "fetching", "assignment", ":">>,
                         assignment.result)
        \* points_possible = max_points or assignment.get("points_possible", 10)
        ELSE IF ~Truthy(max_points) /\ ~IsDict(assignment.result)
        THEN AttributeError(r.cache, calls1)
        ELSE
        LET points_possible == points_possible_of(max_points, assignment.result)
            students == fetch_all_paginated_results("/courses/{course_id}/users", studentPages)
            calls2 == calls1 \o students.calls
        IN  IF IsErrorDict(students.result)
            THEN ErrorReturn(r.cache, calls2, <<"Error", "fetching", "students", ":">>,
                             students.result)
            ELSE
            LET entries == fetch_all_paginated_results(
                    "/courses/{course_id}/discussion_topics/{topic_id}/entries", entryPages)
                calls3 == calls2 \o entries.calls
                participation == count_entries(<<>>, ItemsOf(entries.result))
                student_list == ItemsOf(students.result)
            IN  IF IsErrorDict(entries.result)
                THEN ErrorReturn(r.cache, calls3, <<"Error", "fetching", "entries", ":">>,
                                 entries.result)
                \* min(raw_score, None)
                ELSE IF points_possible.t # "num" /\ student_list # <<>>
                THEN Done(r.cache, calls3, Raised("TypeError"))
                \* assignment.get('name', 'Unknown')
                ELSE IF ~IsDict(assignment.result)
                THEN AttributeError(r.cache, calls3)
                ELSE
                LET g == calculate_grades(participation, student_list,
                             points_for_post, points_for_reply, points_possible.v)
                IN  IF dry_run
                    THEN WithData(Report(r.cache, calls3,
                                      <<"DRY", "RUN", "-", "Discussion", "Participation", "Grading">>,
                                      r.id, course_identifier),
                                  [points_possible |-> points_possible,
                                   student_ids |-> g.student_ids, grades |-> g.grades,
                                   successful |-> 0, failed |-> 0])
                    ELSE
                    LET put == put_grades(Len(g.grades), putReplies, 1,
                                   [calls |-> <<>>, successful |-> 0, failed |-> 0])
                    IN  WithData(Report(r.cache, calls3 \o put.calls,
                                     <<"Discussion", "Participation", "Grading">>,
                                     r.id, course_identifier),
                                 [points_possible |-> points_possible,
                                  student_ids |-> g.student_ids, grades |-> g.grades,
                                  successful |-> put.successful, failed |-> put.failed])

RECURSIVE export_rows(_)
\* the rows of the CSV after the header: each entry as a "post", followed by
\* its recent replies as "reply"
export_rows(entries_list) ==
    IF entries_list = <<>> THEN <<>>
    ELSE <<"post">>
         \o [j \in 1..Len(list_get(entries_list[1], "recent_replies")) |-> "reply"]
         \o export_rows(Tail(entries_list))

\* the user ids of the entries and of their recent replies
unique_users(entries_list) ==
    UNION { {str_get(entries_list[i], "user_id")}
            \cup {str_get(list_get(entries_list[i], "recent_replies")[j], "user_id") :
                    j \in 1..Len(list_get(entries_list[i], "recent_replies"))} :
            i \in 1..Len(entries_list) } \ {<<>>}

\* variant: a format other than "csv" and "summary" is rejected
export_discussion_data_validating(c, course_identifier, search, format, topicReply, entryPages) ==
    LET r == get_course_id(c, course_identifier, search)
        topic == make_canvas_request(
            "get", "/courses/{course_id}/discussion_topics/{topic_id}", topicReply)
        calls1 == r.calls \o topic.calls
    IN  \* not isinstance(topic, dict) or "error" not in topic
        IF ~IsErrorDict(topic.result) /\ ~IsDict(topic.result)
        THEN AttributeError(r.cache, calls1)
        ELSE
        LET entries == fetch_all_paginated_results(
                "/courses/{course_id}/discussion_topics/{topic_id}/entries", entryPages)
            calls2 == calls1 \o entries.calls
            entries_list == ItemsOf(entries.result)
        IN  IF IsErrorDict(entries.result)
            THEN ErrorReturn(r.cache, calls2, <<"Error", "fetching", "entries", ":">>,
                             entries.result)
            ELSE IF format = "csv"
            THEN WithData(Report(r.cache, calls2, <<"Discussion", "Export", ":">>,
                                 r.id, course_identifier),
                          [rows |-> export_rows(entries_list)])
            ELSE IF format # "summary"
            THEN Rejected(r.cache, calls2, <<"Invalid", "format">>, <<"csv", "summary">>)
            ELSE LET total_entries == Len(entries_list)
                     total_replies == Sum([i \in 1..Len(entries_list) |->
                                              Len(list_get(entries_list[i], "recent_replies"))])
                 IN  WithData(Report(r.cache, calls2, <<"Discussion", "Summary", ":">>,
                                     r.id, course_identifier),
                              [total_entries |-> total_entries,
                               total_replies |-> total_replies,
                               total_interactions |-> total_entries + total_replies,
                               unique_users |-> Cardinality(unique_users(entries_list))])

export_discussion_data(c, course_identifier, search, format, topicReply, entryPages) ==
    LET r == get_course_id(c, course_identifier, search)
        topic == make_canvas_request(
            "get", "/courses/{course_id}/discussion_topics/{topic_id}", topicReply)
        calls1 == r.calls \o topic.calls
    IN  \* not isinstance(topic, dict) or "error" not in topic
        IF ~IsErrorDict(topic.result) /\ ~IsDict(topic.result)
        THEN AttributeError(r.cache, calls1)
        ELSE
        LET entries == fetch_all_paginated_results(
                "/courses/{course_id}/discussion_topics/{topic_id}/entries", entryPages)
            calls2 == calls1 \o entries.calls
            entries_list == ItemsOf(entries.result)
        IN  IF IsErrorDict(entries.result)
            THEN ErrorReturn(r.cache, calls2, <<"Error", "fetching", "entries", ":">>,
                             entries.result)
            ELSE IF format = "csv"
            THEN WithData(Report(r.cache, calls2, <<"Discussion", "Export", ":">>,
                                 r.id, course_identifier),
                          [rows |-> export_rows(entries_list)])
            ELSE LET total_entries == Len(entries_list)
                     total_replies == Sum([i \in 1..Len(entries_list) |->
                                              Len(list_get(entries_list[i], "recent_replies"))])
                 IN  WithData(Report(r.cache, calls2, <<"Discussion", "Summary", ":">>,
                                     r.id, course_identifier),
                              [total_entries |-> total_entries,
                               total_replies |-> total_replies,
                               total_interactions |-> total_entries + total_replies,
                               unique_users |-> Cardinality(unique_users(entries_list))])

(* ------------------------------ gradebook ----------------------------- *)

\* [a for a in assignments if a.get("published")]
RECURSIVE Published(_)
Published(items) ==
    IF items = <<>> THEN <<>>
    ELSE IF items[1].published THEN <<items[1]>> \o Published(Tail(items))
    ELSE Published(Tail(items))

\* f"/courses/{course_id}/assignments/{aid}/submissions" for the assignments 1 to 3
SubmissionsPath(assignment) ==
    << "/courses/{course_id}/assignments/1/submissions",
       "/courses/{course_id}/assignments/2/submissions",
       "/courses/{course_id}/assignments/3/submissions" >>[assignment.id]

\* a cell of the gradebook without a score
Blank == [t |-> "blank", v |-> 0]

\* grade_data[sid][aid] = str(score) if score is not None else "", for an enrolled sid only
RECURSIVE record_submissions(_, _, _)
record_submissions(grade_data, aid, submissions) ==
    IF submissions = <<>> THEN grade_data
    ELSE LET sub == submissions[1]
             sid == str_get(sub, "user_id")
             cell == IF "score" \in DOMAIN sub /\ sub.score.t = "num" THEN sub.score ELSE Blank
         IN  record_submissions(
                 IF sid \in DOMAIN grade_data
                 THEN [grade_data EXCEPT ![sid] =
                          [x \in DOMAIN @ \cup {aid} |-> IF x = aid THEN cell ELSE @[x]]]
                 ELSE grade_data,
                 aid, Tail(submissions))

RECURSIVE fetch_submissions(_, _, _, _)
\* the per-assignment submissions fetches; a failed one is skipped over
fetch_submissions(assignment_list, submissionPages, i, acc) ==
    IF i > Len(assignment_list) THEN acc
    ELSE LET submissions == fetch_all_paginated_results(
                 SubmissionsPath(assignment_list[i]), submissionPages[i])
         IN  fetch_submissions(assignment_list, submissionPages, i + 1,
                 [calls |-> acc.calls \o submissions.calls,
                  grade_data |-> record_submissions(acc.grade_data,
                                     str(assignment_list[i].id),
                                     ItemsOf(submissions.result))])

\* variant: one row per distinct student id
csv_rows_per_student_id(student_list, assignment_list, grade_data) ==
    [i \in 1..Len(student_ids(student_list)) |->
        LET sid == student_ids(student_list)[i]
            cells == [j \in 1..Len(assignment_list) |->
                         LET aid == str(assignment_list[j].id)
                         IN  IF aid \in DOMAIN grade_data[sid]
                             THEN grade_data[sid][aid] ELSE Blank]
        IN  [sid |-> sid, cells |-> cells,
             total |-> Sum([j \in 1..Len(cells) |-> cells[j].v])]]

\* the data rows of the CSV: one per element of student_list, a cell per
\* published assignment and the total of the scores
csv_rows(student_list, assignment_list, grade_data) ==
    [i \in 1..Len(student_list) |->
        LET sid == str_get(student_list[i], "id")
            cells == [j \in 1..Len(assignment_list) |->
                         LET aid == str(assignment_list[j].id)
                         IN  IF sid \in DOMAIN grade_data /\ aid \in DOMAIN grade_data[sid]
                             THEN grade_data[sid][aid] ELSE Blank]
        IN  [sid |-> sid, cells |-> cells,
             total |-> Sum([j \in 1..Len(cells) |-> cells[j].v])]]

export_grades(c, course_identifier, search, format, studentPages, assignmentPages, submissionPages) ==
    LET r == get_course_id(c, course_identifier, search)
        students == fetch_all_paginated_results("/courses/{course_id}/users", studentPages)
        calls1 == r.calls \o students.calls
    IN  IF IsErrorDict(students.result)
        THEN ErrorReturn(r.cache, calls1, <<"Error", "fetching", "students", ":">>,
                         students.result)
        ELSE
        LET assignments == fetch_all_paginated_results(
                "/courses/{course_id}/assignments", assignmentPages)
            calls2 == calls1 \o assignments.calls
        IN  IF IsErrorDict(assignments.result)
            THEN ErrorReturn(r.cache, calls2, <<"Error", "fetching", "assignments", ":">>,
                             assignments.result)
            ELSE
            LET student_list == ItemsOf(students.result)
                assignment_list == Published(ItemsOf(assignments.result))
            IN  IF student_list = <<>>
                THEN Message(r.cache, calls2, <<"No", "students", "found.">>)
                ELSE
                LET fetched == fetch_submissions(assignment_list, submissionPages, 1,
                                   [calls |-> calls2,
                                    grade_data |-> [sid \in Range(student_ids(student_list))
                                                       |-> <<>>]])
                IN  IF format = "csv"
                    THEN WithData(Report(r.cache, fetched.calls, <<"Gradebook", "Export", "for">>,
                                         r.id, course_identifier),
                                  [header |-> [j \in 1..Len(assignment_list) |->
                                                  str(assignment_list[j].id)],
                                   rows |-> csv_rows(student_list, assignment_list,
                                                     fetched.grade_data)])
                    ELSE WithData(Report(r.cache, fetched.calls, <<"Gradebook", "Summary", "for">>,
                                         r.id, course_identifier),
                                  [students |-> Len(student_list),
                                   published |-> Len(assignment_list)])

get_assignment_groups(c, course_identifier, search, pages) ==
    LET r == get_course_id(c, course_identifier, search)
        groups == fetch_all_paginated_results(
            "/courses/{course_id}/assignment_groups", pages)
        calls == r.calls \o groups.calls
    IN  IF IsErrorDict(groups.result)
        THEN ErrorReturn(r.cache, calls,
                 <<"Error", "fetching", "assignment", "groups", ":">>, groups.result)
        ELSE IF Falsy(groups.result) \/ ~IsList(groups.result)
        THEN Message(r.cache, calls, <<"No", "assignment", "groups", "found">>)
        ELSE Report(r.cache, calls, <<"Assignment", "Groups", "for">>,
                    r.id, course_identifier)

create_assignment_group(c, course_identifier, search, reply) ==
    LET r == get_course_id(c, course_identifier, search)
        response == make_canvas_request(
            "post", "/courses/{course_id}/assignment_groups", reply)
        calls == r.calls \o response.calls
    IN  IF IsErrorDict(response.result)
        THEN ErrorReturn(r.cache, calls,
                 <<"Error", "creating", "assignment", "group", ":">>, response.result)
        ELSE IF ~IsDict(response.result)
        THEN AttributeError(r.cache, calls)
        ELSE Report(r.cache, calls, <<"Assignment", "group", "created", "in", "course">>,
                    r.id, course_identifier)

\* the request body built from the parameters that are not None
assignment_group_data(supplied) ==
    {k \in {"name", "position"} : k \in supplied}
        \cup (IF "weight" \in supplied THEN {"group_weight"} ELSE {})
        \cup (IF supplied \cap {"drop_lowest", "drop_highest"} # {} THEN {"rules"} ELSE {})

update_assignment_group(c, course_identifier, search, supplied, reply) ==
    LET r == get_course_id(c, course_identifier, search)
        data == assignment_group_data(supplied)
    IN  IF data = {}
        THEN Message(r.cache, r.calls, <<"No", "update", "parameters", "provided.">>)
        ELSE
        LET response == make_canvas_request(
                "put", "/courses/{course_id}/assignment_groups/{group_id}", reply)
            calls == r.calls \o response.calls
        IN  IF IsErrorDict(response.result)
            THEN ErrorReturn(r.cache, calls,
                     <<"Error", "updating", "assignment", "group", ":">>, response.result)
            ELSE IF ~IsDict(response.result)
            THEN AttributeError(r.cache, calls)
            \* the body of the PUT: data, with the keys of its rules
            ELSE WithData(Report(r.cache, calls, <<"Assignment", "group">>,
                                 r.id, course_identifier),
                          [sent |-> data,
                           rules |-> supplied \cap {"drop_lowest", "drop_highest"}])

\* variant: the policy is always created, whether one exists or not
configure_late_policy_always_posts(c, course_identifier, search, existingReply, writeReply) ==
    LET r == get_course_id(c, course_identifier, search)
        existing == make_canvas_request(
            "get", "/courses/{course_id}/late_policy", existingReply)
        response == make_canvas_request("post", "/courses/{course_id}/late_policy", writeReply)
        calls == r.calls \o existing.calls \o response.calls
    IN  IF IsErrorDict(response.result)
        THEN ErrorReturn(r.cache, calls,
                 <<"Error", "configuring", "late", "policy", ":">>, response.result)
        ELSE Report(r.cache, calls, <<"Late", "policy", "configured", "for", "course">>,
                    r.id, course_identifier)

configure_late_policy(c, course_identifier, search, existingReply, writeReply) ==
    LET r == get_course_id(c, course_identifier, search)
        existing == make_canvas_request(
            "get", "/courses/{course_id}/late_policy", existingReply)
        method == IF IsDict(existing.result) /\ ~IsErrorDict(existing.result)
                     /\ Has(existing.result, "late_policy")
                  THEN "put" ELSE "post"
        response == make_canvas_request(method, "/courses/{course_id}/late_policy", writeReply)
        calls == r.calls \o existing.calls \o response.calls
    IN  IF IsErrorDict(response.result)
        THEN ErrorReturn(r.cache, calls,
                 <<"Error", "configuring", "late", "policy", ":">>, response.result)
        ELSE Report(r.cache, calls, <<"Late", "policy", "configured", "for", "course">>,
                    r.id, course_identifier)

(* ------------------------------ enrollment ---------------------------- *)

valid_types ==
    << "StudentEnrollment", "TeacherEnrollment", "TaEnrollment",
       "ObserverEnrollment", "DesignerEnrollment" >>

valid_states == << "active", "invited", "creation_pending", "inactive" >>

create_user(c, reply) ==
    LET response == make_canvas_request("post", "/accounts/{account_id}/users", reply)
    IN  IF IsErrorDict(response.result)
        THEN ErrorReturn(c, response.calls, <<"Error", "creating", "user", ":">>,
                         response.result)
        ELSE IF ~IsDict(response.result)
        THEN AttributeError(c, response.calls)
        ELSE Plain(c, response.calls, <<"User", "created", "successfully.">>)

enroll_user(c, course_identifier, search, enrollment_type, enrollment_state, reply) ==
    IF enrollment_type \notin Range(valid_types)
    THEN Rejected(c, <<>>, <<"Invalid", "enrollment_type">>, valid_types)
    ELSE IF enrollment_state \notin Range(valid_states)
    THEN Rejected(c, <<>>, <<"Invalid", "enrollment_state">>, valid_states)
    ELSE
    LET r == get_course_id(c, course_identifier, search)
        response == make_canvas_request("post", "/courses/{course_id}/enrollments", reply)
        calls == r.calls \o response.calls
    IN  IF IsErrorDict(response.result)
        THEN ErrorReturn(r.cache, calls, <<"Error", "enrolling", "user", ":">>,
                         response.result)
        ELSE IF ~IsDict(response.result)
        THEN AttributeError(r.cache, calls)
        ELSE WithCourse(r.cache, calls, <<"User", "{user_id}", "enrolled", "successfully.">>,
                        r.id)

\* the upload of step 2: one POST of the file to the upload URL
upload_file_multipart(reply) == make_canvas_request("post", "{upload_url}", reply)

\* an error string that reports neither a rejected parameter nor a Failure
Fault(c, calls, text) == Done(c, calls, Str("fault", text, NoError, None, <<>>))

\* variant: the upload is attempted whether or not the slot holds an upload_url
submit_file_for_student_without_slot_check(c, course_identifier, search, file_exists, slotReply, uploadReply, submissionReply) ==
    LET r == get_course_id(c, course_identifier, search)
    IN  IF ~file_exists
        THEN Rejected(r.cache, r.calls, <<"Error", ":", "File", "not", "found", "at">>, <<>>)
        ELSE
        LET slot_response == make_canvas_request("post",
                "/courses/{course_id}/assignments/{assignment_id}/submissions/{user_id}/files",
                slotReply)
            calls1 == r.calls \o slot_response.calls
        IN  IF IsErrorDict(slot_response.result)
            THEN ErrorReturn(r.cache, calls1,
                     <<"Error", "requesting", "upload", "slot", ":">>, slot_response.result)
            ELSE IF ~IsDict(slot_response.result)
            THEN AttributeError(r.cache, calls1)
            ELSE
            LET upload_response == upload_file_multipart(uploadReply)
                calls2 == calls1 \o upload_response.calls
            IN  IF IsErrorDict(upload_response.result)
                THEN ErrorReturn(r.cache, calls2, <<"Error", "uploading", "file", ":">>,
                                 upload_response.result)
                ELSE IF ~IsDict(upload_response.result)
                THEN AttributeError(r.cache, calls2)
                ELSE IF ~Has(upload_response.result, "id")
                THEN Fault(r.cache, calls2, <<"Error", ":", "No", "file", "ID">>)
                ELSE
                LET submission_response == make_canvas_request("post",
                        "/courses/{course_id}/assignments/{assignment_id}/submissions",
                        submissionReply)
                    calls3 == calls2 \o submission_response.calls
                IN  IF IsErrorDict(submission_response.result)
                    THEN ErrorReturn(r.cache, calls3,
                             <<"Error", "creating", "submission", ":">>,
                             submission_response.result)
                    ELSE IF ~IsDict(submission_response.result)
                    THEN AttributeError(r.cache, calls3)
                    \* "file_ids": [file_id] of the submission, shown as File: ... (ID: ...)
                    ELSE WithData(WithCourse(r.cache, calls3,
                                      <<"File", "submitted", "successfully">>, r.id),
                                  [file_ids |-> <<upload_response.result.payload.id>>])

submit_file_for_student(c, course_identifier, search, file_exists, slotReply, uploadReply, submissionReply) ==
    LET r == get_course_id(c, course_identifier, search)
    IN  IF ~file_exists
        THEN Rejected(r.cache, r.calls, <<"Error", ":", "File", "not", "found", "at">>, <<>>)
        ELSE
        LET slot_response == make_canvas_request("post",
                "/courses/{course_id}/assignments/{assignment_id}/submissions/{user_id}/files",
                slotReply)
            calls1 == r.calls \o slot_response.calls
        IN  IF IsErrorDict(slot_response.result)
            THEN ErrorReturn(r.cache, calls1,
                     <<"Error", "requesting", "upload", "slot", ":">>, slot_response.result)
            ELSE IF ~IsDict(slot_response.result)
            THEN AttributeError(r.cache, calls1)
            ELSE IF ~Has(slot_response.result, "upload_url")
            THEN Fault(r.cache, calls1, <<"Error", ":", "No", "upload_url", "returned">>)
            ELSE
            LET upload_response == upload_file_multipart(uploadReply)
                calls2 == calls1 \o upload_response.calls
            IN  IF IsErrorDict(upload_response.result)
                THEN ErrorReturn(r.cache, calls2, <<"Error", "uploading", "file", ":">>,
                                 upload_response.result)
                ELSE IF ~IsDict(upload_response.result)
                THEN AttributeError(r.cache, calls2)
                ELSE IF ~Has(upload_response.result, "id")
                THEN Fault(r.cache, calls2, <<"Error", ":", "No", "file", "ID">>)
                ELSE
                LET submission_response == make_canvas_request("post",
                        "/courses/{course_id}/assignments/{assignment_id}/submissions",
                        submissionReply)
                    calls3 == calls2 \o submission_response.calls
                IN  IF IsErrorDict(submission_response.result)
                    THEN ErrorReturn(r.cache, calls3,
                             <<"Error", "creating", "submission", ":">>,
                             submission_response.result)
                    ELSE IF ~IsDict(submission_response.result)
                    THEN AttributeError(r.cache, calls3)
                    \* "file_ids": [file_id] of the submission, shown as File: ... (ID: ...)
                    ELSE WithData(WithCourse(r.cache, calls3,
                                      <<"File", "submitted", "successfully">>, r.id),
                                  [file_ids |-> <<upload_response.result.payload.id>>])

(* ---------------------------- search helpers -------------------------- *)

\* str.lower() over the letters the names are drawn from
lower(s) == [i \in 1..Len(s) |-> IF s[i] = "A" THEN "a" ELSE IF s[i] = "B" THEN "b" ELSE s[i]]

\* `sub in s` for strings
Contains(sub, s) ==
    \E i \in 1..(Len(s) + 1) :
        /\ i + Len(sub) - 1 <= Len(s)
        /\ SubSeq(s, i, i + Len(sub) - 1) = sub

\* [a for a in items if query_lower in a.get("name", "").lower()]
RECURSIVE Matching(_, _)
Matching(query_lower, items) ==
    IF items = <<>> THEN <<>>
    ELSE IF Contains(query_lower, lower(items[1].name))
    THEN <<items[1]>> \o Matching(query_lower, Tail(items))
    ELSE Matching(query_lower, Tail(items))

\* variant: the unfiltered list is fetched whether or not the search matched
find_assignment_always_falls_back(c, course_identifier, search, name_query, pages, fallbackPages) ==
    LET r == get_course_id(c, course_identifier, search)
        query_lower == lower(name_query)
        first == fetch_all_paginated_results(
            "/courses/{course_id}/assignments?search_term={name_query}", pages)
        calls1 == r.calls \o first.calls
    IN  IF IsErrorDict(first.result)
        THEN ErrorReturn(r.cache, calls1, <<"Error", "searching", "assignments", ":">>,
                         first.result)
        ELSE
        LET matches == Matching(query_lower, ItemsOf(first.result))
            fallback == fetch_all_paginated_results(
                "/courses/{course_id}/assignments", fallbackPages)
            all_matches == IF matches # <<>> THEN matches
                           ELSE IF IsList(fallback.result)
                           THEN Matching(query_lower, ItemsOf(fallback.result))
                           ELSE <<>>
            calls2 == calls1 \o fallback.calls
        IN  IF all_matches = <<>>
            THEN Message(r.cache, calls2, <<"No", "assignments", "matching">>)
            ELSE WithData(Report(r.cache, calls2, <<"Assignments", "matching">>,
                                 r.id, course_identifier),
                          [matches |-> all_matches])

find_assignment(c, course_identifier, search, name_query, pages, fallbackPages) ==
    LET r == get_course_id(c, course_identifier, search)
        query_lower == lower(name_query)
        first == fetch_all_paginated_results(
            "/courses/{course_id}/assignments?search_term={name_query}", pages)
        calls1 == r.calls \o first.calls
    IN  IF IsErrorDict(first.result)
        THEN ErrorReturn(r.cache, calls1, <<"Error", "searching", "assignments", ":">>,
                         first.result)
        ELSE
        LET matches == Matching(query_lower, ItemsOf(first.result))
            fallback == fetch_all_paginated_results(
                "/courses/{course_id}/assignments", fallbackPages)
            all_matches == IF matches # <<>> THEN matches
                           ELSE IF IsList(fallback.result)
                           THEN Matching(query_lower, ItemsOf(fallback.result))
                           ELSE <<>>
            calls2 == IF matches # <<>> THEN calls1 ELSE calls1 \o fallback.calls
        IN  IF all_matches = <<>>
            THEN Message(r.cache, calls2, <<"No", "assignments", "matching">>)
            ELSE WithData(Report(r.cache, calls2, <<"Assignments", "matching">>,
                                 r.id, course_identifier),
                          [matches |-> all_matches])

find_student(c, course_identifier, search, name_query, pages, fallbackPages) ==
    LET r == get_course_id(c, course_identifier, search)
        query_lower == lower(name_query)
        first == fetch_all_paginated_results(
            "/courses/{course_id}/users?search_term={name_query}", pages)
        calls1 == r.calls \o first.calls
    IN  IF IsErrorDict(first.result)
        THEN ErrorReturn(r.cache, calls1, <<"Error", "searching", "students", ":">>,
                         first.result)
        ELSE
        LET matches == Matching(query_lower, ItemsOf(first.result))
            fallback == fetch_all_paginated_results(
                "/courses/{course_id}/users", fallbackPages)
            all_matches == IF matches # <<>> THEN matches
                           ELSE IF IsList(fallback.result)
                           THEN Matching(query_lower, ItemsOf(fallback.result))
                           ELSE <<>>
            calls2 == IF matches # <<>> THEN calls1 ELSE calls1 \o fallback.calls
        IN  IF all_matches = <<>>
            THEN Message(r.cache, calls2, <<"No", "students", "matching">>)
            ELSE Report(r.cache, calls2, <<"Students", "matching">>,
                        r.id, course_identifier)

\* the topics carry their title in the field the model calls name
find_discussion(c, course_identifier, search, name_query, pages) ==
    LET r == get_course_id(c, course_identifier, search)
        query_lower == lower(name_query)
        topics == fetch_all_paginated_results("/courses/{course_id}/discussion_topics", pages)
        calls == r.calls \o topics.calls
    IN  IF IsErrorDict(topics.result)
        THEN ErrorReturn(r.cache, calls, <<"Error", "searching", "discussions", ":">>,
                         topics.result)
        ELSE IF Matching(query_lower, ItemsOf(topics.result)) = <<>>
        THEN Message(r.cache, calls, <<"No", "discussions", "matching">>)
        ELSE Report(r.cache, calls, <<"Discussions", "matching">>, r.id, course_identifier)

(* ------------------------------- quizzes ------------------------------ *)

\* list_quizzes without the check of the fetch's result
list_quizzes_unguarded(c, course_identifier, search, pages) ==
    LET r == get_course_id(c, course_identifier, search)
        quizzes == fetch_all_paginated_results("/courses/{course_id}/quizzes", pages)
        calls == r.calls \o quizzes.calls
    IN  IF Falsy(quizzes.result) \/ ~IsList(quizzes.result)
        THEN Message(r.cache, calls, <<"No", "quizzes", "found", "for", "course">>)
        ELSE Report(r.cache, calls, <<"Quizzes", "for", "Course">>, r.id, course_identifier)

list_quizzes(c, course_identifier, search, pages) ==
    LET r == get_course_id(c, course_identifier, search)
        quizzes == fetch_all_paginated_results("/courses/{course_id}/quizzes", pages)
        calls == r.calls \o quizzes.calls
    IN  IF IsErrorDict(quizzes.result)
        THEN ErrorReturn(r.cache, calls, <<"Error", "fetching", "quizzes", ":">>,
                         quizzes.result)
        ELSE IF Falsy(quizzes.result) \/ ~IsList(quizzes.result)
        THEN Message(r.cache, calls, <<"No", "quizzes", "found", "for", "course">>)
        ELSE Report(r.cache, calls, <<"Quizzes", "for", "Course">>, r.id, course_identifier)

get_quiz_details(c, course_identifier, search, reply) ==
    LET r == get_course_id(c, course_identifier, search)
        response == make_canvas_request(
            "get", "/courses/{course_id}/quizzes/{quiz_id}", reply)
        calls == r.calls \o response.calls
    IN  IF IsErrorDict(response.result)
        THEN ErrorReturn(r.cache, calls, <<"Error", "fetching", "quiz", "details", ":">>, response.result)
        ELSE IF ~IsDict(response.result)
        THEN AttributeError(r.cache, calls)
        ELSE Report(r.cache, calls, <<"Quiz", "Details", "for", "Course">>, r.id, course_identifier)

create_quiz(c, course_identifier, search, reply) ==
    LET r == get_course_id(c, course_identifier, search)
        response == make_canvas_request(
            "post", "/courses/{course_id}/quizzes", reply)
        calls == r.calls \o response.calls
    IN  IF IsErrorDict(response.result)
        THEN ErrorReturn(r.cache, calls, <<"Error", "creating", "quiz", ":">>, response.result)
        ELSE IF ~IsDict(response.result)
        THEN AttributeError(r.cache, calls)
        ELSE Report(r.cache, calls, <<"Quiz", "created", "successfully", "in", "course">>, r.id, course_identifier)

update_quiz(c, course_identifier, search, quiz_data, reply) ==
    LET r == get_course_id(c, course_identifier, search)
    IN  IF quiz_data = {}
        THEN Message(r.cache, r.calls, <<"No", "update", "parameters", "provided.">>)
        ELSE
        LET response == make_canvas_request(
                "put", "/courses/{course_id}/quizzes/{quiz_id}", reply)
            calls == r.calls \o response.calls
        IN  IF IsErrorDict(response.result)
            THEN ErrorReturn(r.cache, calls, <<"Error", "updating", "quiz", ":">>,
                             response.result)
            ELSE IF ~IsDict(response.result)
            THEN AttributeError(r.cache, calls)
            \* the body of the PUT: {"quiz": quiz_data}
            ELSE WithData(Report(r.cache, calls, <<"Quiz", "updated">>,
                                 r.id, course_identifier),
                          [sent |-> quiz_data])

delete_quiz(c, course_identifier, search, quizReply, reply) ==
    LET r == get_course_id(c, course_identifier, search)
        \* fetched for the title only; a Failure leaves the title "Unknown"
        quiz == make_canvas_request("get", "/courses/{course_id}/quizzes/{quiz_id}", quizReply)
        response == make_canvas_request(
            "delete", "/courses/{course_id}/quizzes/{quiz_id}", reply)
        calls == r.calls \o quiz.calls \o response.calls
    IN  IF IsErrorDict(response.result)
        THEN ErrorReturn(r.cache, calls, <<"Error", "deleting", "quiz", ":">>,
                         response.result)
        ELSE Report(r.cache, calls, <<"Quiz", "deleted">>, r.id, course_identifier)

publish_quiz(c, course_identifier, search, reply) ==
    LET r == get_course_id(c, course_identifier, search)
        response == make_canvas_request(
            "put", "/courses/{course_id}/quizzes/{quiz_id}", reply)
        calls == r.calls \o response.calls
    IN  IF IsErrorDict(response.result)
        THEN ErrorReturn(r.cache, calls, <<"Error", "publishing", "quiz", ":">>, response.result)
        ELSE IF ~IsDict(response.result)
        THEN AttributeError(r.cache, calls)
        ELSE Report(r.cache, calls, <<"Quiz", "published">>, r.id, course_identifier)

unpublish_quiz(c, course_identifier, search, reply) ==
    LET r == get_course_id(c, course_identifier, search)
        response == make_canvas_request(
            "put", "/courses/{course_id}/quizzes/{quiz_id}", reply)
        calls == r.calls \o response.calls
    IN  IF IsErrorDict(response.result)
        THEN ErrorReturn(r.cache, calls, <<"Error", "unpublishing", "quiz", ":">>, response.result)
        ELSE IF ~IsDict(response.result)
        THEN AttributeError(r.cache, calls)
        ELSE Report(r.cache, calls, <<"Quiz", "unpublished">>, r.id, course_identifier)

list_quiz_questions(c, course_identifier, search, pages) ==
    LET r == get_course_id(c, course_identifier, search)
        questions == fetch_all_paginated_results(
            "/courses/{course_id}/quizzes/{quiz_id}/questions", pages)
        calls == r.calls \o questions.calls
    IN  IF IsErrorDict(questions.result)
        THEN ErrorReturn(r.cache, calls, <<"Error", "fetching", "quiz", "questions", ":">>,
                         questions.result)
        ELSE IF Falsy(questions.result) \/ ~IsList(questions.result)
        THEN Message(r.cache, calls, <<"No", "questions", "found", "for", "quiz">>)
        ELSE Report(r.cache, calls, <<"Quiz", "Questions">>, r.id, course_identifier)

\* answers: str | None, as json.loads sees it
NoAnswers == "None"

AnswersTexts == {"", "[]", "{}", "[oops"}

\* json.loads(answers) raises JSONDecodeError
JSONDecodeError(answers) == answers \in {"", "[oops"}

add_quiz_question(c, course_identifier, search, answers, reply) ==
    LET r == get_course_id(c, course_identifier, search)
    IN  \* `if answers:` skips None and the empty string
        IF answers \notin {NoAnswers, ""} /\ JSONDecodeError(answers)
        THEN Rejected(r.cache, r.calls,
                 <<"Error", ":", "'answers'", "must", "be", "a", "valid", "JSON", "array.">>,
                 <<>>)
        ELSE
        LET response == make_canvas_request(
                "post", "/courses/{course_id}/quizzes/{quiz_id}/questions", reply)
            calls == r.calls \o response.calls
        IN  IF IsErrorDict(response.result)
            THEN ErrorReturn(r.cache, calls, <<"Error", "adding", "question", ":">>,
                             response.result)
            ELSE IF ~IsDict(response.result)
            THEN AttributeError(r.cache, calls)
            ELSE Report(r.cache, calls, <<"Question", "added", "to", "quiz">>,
                        r.id, course_identifier)

update_quiz_question(c, course_identifier, search, supplied, answers, reply) ==
    LET r == get_course_id(c, course_identifier, search)
    IN  \* `if answers is not None:` parses the empty string too
        IF answers # NoAnswers /\ JSONDecodeError(answers)
        THEN Rejected(r.cache, r.calls,
                 <<"Error", ":", "'answers'", "must", "be", "a", "valid", "JSON", "array.">>,
                 <<>>)
        ELSE
        LET question_data == supplied \cup (IF answers # NoAnswers THEN {"answers"} ELSE {})
        IN  IF question_data = {}
            THEN Message(r.cache, r.calls, <<"No", "update", "parameters", "provided.">>)
            ELSE
            LET response == make_canvas_request("put",
                    "/courses/{course_id}/quizzes/{quiz_id}/questions/{question_id}", reply)
                calls == r.calls \o response.calls
            IN  IF IsErrorDict(response.result)
                THEN ErrorReturn(r.cache, calls, <<"Error", "updating", "question", ":">>,
                                 response.result)
                \* the body of the PUT: {"question": question_data}
                ELSE WithData(Report(r.cache, calls, <<"Question", "updated">>,
                                     r.id, course_identifier),
                              [sent |-> question_data])

delete_quiz_question(c, course_identifier, search, reply) ==
    LET r == get_course_id(c, course_identifier, search)
        response == make_canvas_request(
            "delete", "/courses/{course_id}/quizzes/{quiz_id}/questions/{question_id}", reply)
        calls == r.calls \o response.calls
    IN  IF IsErrorDict(response.result)
        THEN ErrorReturn(r.cache, calls, <<"Error", "deleting", "question", ":">>, response.result)
        ELSE Report(r.cache, calls, <<"Question", "deleted">>, r.id, course_identifier)

get_quiz_statistics(c, course_identifier, search, reply) ==
    LET r == get_course_id(c, course_identifier, search)
        response == make_canvas_request(
            "get", "/courses/{course_id}/quizzes/{quiz_id}/statistics", reply)
        calls == r.calls \o response.calls
    IN  IF IsErrorDict(response.result)
        THEN ErrorReturn(r.cache, calls,
                 <<"Error", "fetching", "quiz", "statistics", ":">>, response.result)
        \* response.get("quiz_statistics", [])
        ELSE IF ~IsDict(response.result)
        THEN AttributeError(r.cache, calls)
        ELSE IF ~Has(response.result, "quiz_statistics")
        THEN Message(r.cache, calls, <<"No", "statistics", "available", "for", "quiz">>)
        ELSE Report(r.cache, calls, <<"Quiz", "Statistics">>, r.id, course_identifier)

list_quiz_submissions(c, course_identifier, search, reply) ==
    LET r == get_course_id(c, course_identifier, search)
        response == make_canvas_request(
            "get", "/courses/{course_id}/quizzes/{quiz_id}/submissions", reply)
        calls == r.calls \o response.calls
    IN  IF IsErrorDict(response.result)
        THEN ErrorReturn(r.cache, calls,
                 <<"Error", "fetching", "quiz", "submissions", ":">>, response.result)
        ELSE IF ~(IsDict(response.result) /\ Has(response.result, "quiz_submissions"))
        THEN Message(r.cache, calls, <<"No", "submissions", "found", "for", "quiz">>)
        ELSE Report(r.cache, calls, <<"Quiz", "Submissions">>, r.id, course_identifier)

(* ------------------------------ inputs -------------------------------- *)

Methods == {"get", "post", "put", "delete"}

Identifiers ==
    {StrId(s) : s \in SeqsUpTo(Alphabet, MaxIdLen) \ {<<>>}} \cup {IntId(<<"7">>)}

\* the ids display_code is asked about
CourseIds == {IntId(c.id) : c \in Catalogue} \cup {i \in Identifiers : IsNumeric(i)}

\* what the course search may answer
SearchResults ==
    {s \in SeqsUpTo(Catalogue, MaxSearchResults) :
        \A i, j \in 1..Len(s) : i # j => s[i] # s[j]}

SearchReplies == FailureReplies \cup {OkReply(Arr(s)) : s \in SearchResults}

SearchFor(c, identifier) ==
    IF NeedsSearch(c, identifier) THEN SearchReplies ELSE {NoReply}

\* the elements of a plain collection
Elements == {[id |-> 1], [id |-> 2]}

PageReplies == FailureReplies \cup {OkReply(Arr(s)) : s \in SeqsUpTo(Elements, MaxPageLen)}

\* the 3-page fixture: pages of 100, 100 and 42 elements
FixturePages ==
    << OkReply(Arr([i \in 1..100 |-> [id |-> i]])),
       OkReply(Arr([i \in 1..100 |-> [id |-> 100 + i]])),
       OkReply(Arr([i \in 1..42 |-> [id |-> 200 + i]])) >>

\* the same fixture with page 2 failing
FixturePagesFailing == [FixturePages EXCEPT ![2] = HttpError(500)]

PageSeqs ==
    (SeqsUpTo(PageReplies, MaxPages) \ {<<>>}) \cup {FixturePages, FixturePagesFailing}

\* every payload shape a single request may succeed with
Payloads == {Null, Obj({}), Obj({"id"}), Arr(<<>>), Arr(<<[id |-> 1]>>)}

Replies == FailureReplies \cup {OkReply(p) : p \in Payloads}

\* the identifiers the tools are called with: an id, a known code, an unknown code
HandlerIdentifiers == {IntId(<<"7">>), StrId(<<"C">>), StrId(<<"1", "C">>)}

HandlerSearchReplies ==
    {HttpError(404), OkReply(Arr(<<>>)),
     OkReply(Arr(<<CHOOSE x \in Catalogue : x.course_code = <<"C">> >>))}

HandlerSearchFor(c, identifier) ==
    IF NeedsSearch(c, identifier) THEN HandlerSearchReplies ELSE {NoReply}

\* the collections a tool's paginated fetch may meet
HandlerPageSeqs ==
    { <<HttpError(404)>>,
      <<OkReply(Arr(<<>>))>>,
      <<OkReply(Arr(<<[id |-> 1]>>))>>,
      <<OkReply(Arr(<<[id |-> 1]>>)), TransportError>>,
      <<OkReply(Arr(<<[id |-> 1]>>)), OkReply(Arr(<<[id |-> 2]>>))>> }

LatePolicyReplies == Replies \cup {OkReply(Obj({"late_policy"}))}

SlotReplies ==
    {HttpError(404), OkReply(Arr(<<>>)), OkReply(Obj({})), OkReply(Obj({"upload_url"}))}

\* the uploaded file, with its id
FileObj(id) == [k |-> "object", fields |-> {"id"}, items |-> <<>>, id |-> id]

UploadReplies ==
    {TransportError, OkReply(Arr(<<>>)), OkReply(Obj({})), OkReply(FileObj(5)), OkReply(FileObj(6))}

StatisticsReplies == Replies \cup {OkReply(Obj({"quiz_statistics"}))}

SubmissionsReplies == Replies \cup {OkReply(Obj({"quiz_submissions"}))}

\* assignments, students and topics as the search helpers read them
NamedPageSeqs ==
    { <<HttpError(404)>>,
      <<OkReply(Arr(<<>>))>>,
      <<OkReply(Arr(<<[id |-> 1, name |-> <<"A", "b">>]>>))>>,
      <<OkReply(Arr(<<[id |-> 1, name |-> <<"A", "b">>], [id |-> 2, name |-> <<"b">>]>>))>> }

Queries == {<<"a">>, <<"B">>, <<"z">>}

\* assignments as export_grades reads them
AssignmentPageSeqs ==
    { <<HttpError(404)>>,
      <<OkReply(Arr(<<>>))>>,
      <<OkReply(Arr(<<[id |-> 1, published |-> TRUE], [id |-> 2, published |-> FALSE]>>))>>,
      <<OkReply(Arr(<<[id |-> 1, published |-> TRUE]>>)),
        OkReply(Arr(<<[id |-> 3, published |-> TRUE]>>))>> }

\* one submissions collection per published assignment
SubmissionPageSeqs ==
    [1..2 -> {<<HttpError(404)>>, <<OkReply(Arr(<<[id |-> 1]>>))>>}]

\* one answer per grade submitted
PutReplies == [1..2 -> {HttpError(404), OkReply(Obj({"id"}))}]

MaxPointsInputs == {NoPoints, Points(0), Points(10)}

Formats == {"csv", "summary", "json"}

\* an object whose list-valued field holds the given list
ListObj(field, list) == [k |-> "object", fields |-> {field}, items |-> list]

\* enrolled students as the discussion tools meet them: none, two, a repeated
\* record, one who never posts
StudentLists ==
    { <<>>,
      <<[id |-> 1], [id |-> 2]>>,
      <<[id |-> 2], [id |-> 1], [id |-> 2]>>,
      <<[id |-> 3]>> }

\* a reply by user 1 or 2, or one that names no user
ReplySet == {[user_id |-> u] : u \in 1..2} \cup {[id |-> 9]}

\* an entry by user 1 or 2 with at most one recent reply, or one that names no user
EntrySet ==
    {[user_id |-> u, recent_replies |-> rr] : u \in 1..2, rr \in SeqsUpTo(ReplySet, 1)}
        \cup {[id |-> 9], [id |-> 9, recent_replies |-> <<[user_id |-> 1]>>]}

\* the topic of the test: one entry by user 1 holding a reply by user 1
FixtureEntries == <<[user_id |-> 1, recent_replies |-> <<[user_id |-> 1]>>]>>

EntryLists == SeqsUpTo(EntrySet, MaxEntries)

\* an assignment object holding points_possible
AssignmentObj(points) ==
    [k |-> "object", fields |-> {"name", "points_possible"}, items |-> <<>>,
     points_possible |-> points]

\* an assignment worth 8 or 0 points, one with null points, one without the key
AssignmentReplies ==
    {OkReply(AssignmentObj(Num(8))), OkReply(AssignmentObj(Num(0))),
     OkReply(AssignmentObj(JNull)), OkReply(Obj({"name"}))}

\* a post by user 1 with two replies of user 1, a bare post by user 2, and an
\* entry that names no user with a reply of user 1
GradedEntries ==
    { [user_id |-> 1, recent_replies |-> <<[user_id |-> 1], [user_id |-> 1]>>],
      [user_id |-> 2],
      [id |-> 9, recent_replies |-> <<[user_id |-> 1]>>] }

\* every outcome of the requests with the default points, and the graded
\* topics with each cap
GradingScenarios ==
    [points_for_post : {5}, points_for_reply : {3}, max_points : MaxPointsInputs,
     dry_run : BOOLEAN, assignmentReply : Replies, studentPages : HandlerPageSeqs,
     entryPages : HandlerPageSeqs, putReplies : PutReplies]
    \cup
    [points_for_post : {5, 1}, points_for_reply : {3}, max_points : MaxPointsInputs,
     dry_run : BOOLEAN, assignmentReply : AssignmentReplies,
     studentPages : {<<OkReply(Arr(l))>> : l \in StudentLists},
     entryPages : {<<OkReply(Arr(l))>> : l \in SeqsUpTo(GradedEntries, MaxEntries)},
     putReplies : PutReplies]

\* the assignments of the course: published ones around an unpublished one,
\* an unpublished one alone, two published ones out of id order
ExportedAssignments ==
    { <<[id |-> 1, published |-> TRUE], [id |-> 2, published |-> FALSE],
        [id |-> 3, published |-> TRUE]>>,
      <<[id |-> 2, published |-> FALSE]>>,
      <<[id |-> 3, published |-> TRUE], [id |-> 1, published |-> TRUE]>> }

\* the submissions of one assignment: the fetch fails, student 1 scored, a
\* stranger scored and student 2 unscored, student 1 scored twice
ExportedSubmissions ==
    { <<HttpError(404)>>,
      <<OkReply(Arr(<<[user_id |-> 1, score |-> Num(8)]>>))>>,
      <<OkReply(Arr(<<[user_id |-> 9, score |-> Num(5)], [user_id |-> 2, score |-> JNull]>>))>>,
      <<OkReply(Arr(<<[user_id |-> 1, score |-> Num(3)]>>)),
        OkReply(Arr(<<[user_id |-> 1, score |-> Num(4)]>>))>> }

\* every outcome of the fetches, and the gradebooks of the courses above
ExportScenarios ==
    [format : Formats, studentPages : HandlerPageSeqs,
     assignmentPages : AssignmentPageSeqs, submissionPages : SubmissionPageSeqs]
    \cup
    [format : Formats, studentPages : {<<OkReply(Arr(l))>> : l \in StudentLists},
     assignmentPages : {<<OkReply(Arr(l))>> : l \in ExportedAssignments},
     submissionPages : [1..2 -> ExportedSubmissions]]

\* what export_discussion_data may meet upstream: every combination of
\* outcomes of its two calls, and every topic content
DiscussionExportScenarios ==
    [format : Formats, topicReply : Replies, entryPages : HandlerPageSeqs]
    \cup
    [format : Formats, topicReply : {OkReply(Obj({"title"}))},
     entryPages : {<<OkReply(Arr(l))>> : l \in EntryLists}]

ViewReplies ==
    { TransportError,
      OkReply(Arr(<<>>)),
      OkReply(ListObj("view", <<>>)),
      OkReply(ListObj("view", <<[replies |-> <<[user_id |-> 2], [user_id |-> 2]>>]>>)),
      OkReply(ListObj("view", <<[replies |-> <<[user_id |-> 2]>>]>>)),
      OkReply(ListObj("view", <<[replies |-> <<[user_id |-> 1], [user_id |-> 3]>>],
                                [id |-> 9]>>)) }

\* what get_discussion_participation_summary may meet upstream: every
\* combination of outcomes of its four calls, and every topic content
SummaryScenarios ==
    [studentPages : HandlerPageSeqs, entryPages : HandlerPageSeqs,
     topicReply : Replies, viewReply : Replies]
    \cup
    [studentPages : {<<OkReply(Arr(l))>> : l \in StudentLists},
     entryPages : {<<OkReply(Arr(l))>> : l \in EntryLists},
     topicReply : {OkReply(Obj({"title"}))}, viewReply : ViewReplies]

\* one assignment of a student: graded out of 0, 3 or 10 points or of no stated
\* points, submitted and not yet graded, or without a submission
StudentAssignments ==
    { [points_possible |-> Num(0), submission |-> [score |-> Num(0)]],
      [points_possible |-> JNull, submission |-> [score |-> Num(5)]],
      [points_possible |-> Num(10),
       submission |-> [score |-> Num(8), late |-> TRUE, submitted_at |-> TRUE]],
      [points_possible |-> Num(3), submission |-> [score |-> Num(1), late |-> FALSE]],
      [points_possible |-> Num(10), submission |-> [score |-> JNull, submitted_at |-> TRUE]],
      [points_possible |-> Num(10), submission |-> [submitted_at |-> TRUE, late |-> TRUE]],
      [points_possible |-> Num(10), submission |-> [late |-> TRUE]],
      [points_possible |-> Num(10), submission |-> <<>>],
      [points_possible |-> Num(10)] }

StudentAssignmentReplies ==
    Replies \cup {OkReply(Arr(l)) : l \in SeqsUpTo(StudentAssignments, MaxRows)}

\* one day of course activity: nothing counted, zero counts, or some views
ActivityDays ==
    { [date |-> [t |-> "str", v |-> 1]],
      [date |-> [t |-> "str", v |-> 1], page_views |-> Num(0), participations |-> Num(0)],
      [date |-> [t |-> "str", v |-> 2], page_views |-> Num(3), participations |-> Num(1)],
      [page_views |-> JNull],
      [page_views |-> Num(2)] }

\* every value of a day of activity is typed, so the untyped row is left out
ActivityReplies ==
    (Replies \ {OkReply(Arr(<<[id |-> 1]>>))})
        \cup {OkReply(Arr(l)) : l \in SeqsUpTo(ActivityDays, MaxRows)}

\* one assignment of the course statistics: no breakdown, nothing submitted,
\* some submissions, null counts, or a null breakdown
AssignmentStatistics ==
    { [id |-> 1],
      [tardiness_breakdown |->
          [t |-> "object", fields |-> [on_time |-> Num(0), late |-> Num(0), missing |-> Num(2)]]],
      [tardiness_breakdown |->
          [t |-> "object", fields |-> [on_time |-> Num(3), late |-> Num(1)]]],
      [tardiness_breakdown |->
          [t |-> "object", fields |-> [on_time |-> JNull, late |-> JNull]]],
      [tardiness_breakdown |-> [t |-> "null"]] }

AssignmentStatisticsReplies ==
    Replies \cup {OkReply(Arr(l)) : l \in SeqsUpTo(AssignmentStatistics, MaxRows)}

\* a report with its status and its attachment: null, {} or a file
ReportObj(status, attachment) ==
    [k |-> "object", fields |-> {"status"}, items |-> <<>>,
     status |-> status, attachment |-> attachment]

ReportStatusReplies ==
    Replies
        \cup {OkReply(ReportObj(st, at)) :
                 st \in {"complete", "running", "error", "created"},
                 at \in {"null", "empty", "file"}}
        \cup {OkReply([k |-> "object", fields |-> {"status"}, items |-> <<>>, status |-> st]) :
                 st \in {"complete", "running", "error", "created"}}
        \cup {OkReply([k |-> "object", fields |-> {"attachment"}, items |-> <<>>,
                       attachment |-> "file"])}

\* the counts around the thresholds of the attention lists, absent and null included
PageViewValues == {Num(0), Num(9), Num(10), JNull}

ParticipationValues == {Num(0), Num(4), Num(5), JNull}

TardinessValues ==
    { [t |-> "object", fields |-> [late |-> Num(3), missing |-> Num(2)]],
      [t |-> "object", fields |-> [late |-> Num(4), missing |-> Num(2)]],
      [t |-> "object", fields |-> [late |-> Num(3), missing |-> Num(3)]],
      [t |-> "object", fields |-> [late |-> JNull]] }

\* one student of the analytics summaries
StudentSummaries ==
    {[id |-> 1, page_views |-> pv, participations |-> pa, tardiness_breakdown |-> td] :
        pv \in PageViewValues, pa \in ParticipationValues,
        td \in TardinessValues}
    \cup {[id |-> 1, page_views |-> pv] : pv \in PageViewValues}
    \cup {[id |-> 1, participations |-> pa] : pa \in ParticipationValues}
    \cup {[id |-> 1, name |-> <<"Ann">>, tardiness_breakdown |-> [t |-> "null"]]}

\* the course of the test, and a course of three
SummaryFixtures ==
    { <<[page_views |-> Num(0), participations |-> Num(0)]>>,
      <<[id |-> 1, page_views |-> Num(0)],
        [id |-> 2, page_views |-> Num(9), participations |-> Num(4),
         tardiness_breakdown |-> [t |-> "object", fields |-> [missing |-> Num(3)]]],
        [id |-> 3, page_views |-> Num(10), participations |-> Num(0)]>> }

SummaryPageSeqs ==
    HandlerPageSeqs
        \cup {<<OkReply(Arr(<<st>>))>> : st \in StudentSummaries}
        \cup {<<OkReply(Arr(l))>> : l \in SummaryFixtures}

(* ------------------------------ actions ------------------------------- *)

Idle == [layer |-> "idle", name |-> "idle", input |-> None, calls |-> <<>>, ret |-> None]

Init ==
    /\ cache = <<>>
    /\ op = Idle

Request ==
    /\ op = Idle
    /\ \E method \in Methods, reply \in Replies :
        LET r == make_canvas_request(method, "/resource", reply)
        IN  /\ op' = [layer |-> "core", name |-> "make_canvas_request", input |-> reply,
                      calls |-> r.calls, ret |-> r.result]
            /\ UNCHANGED cache

FetchAll ==
    /\ op = Idle
    /\ \E pages \in PageSeqs :
        LET r == fetch_all_paginated_results("/collection", pages)
        IN  /\ op' = [layer |-> "core", name |-> "fetch_all_paginated_results", input |-> pages,
                      calls |-> r.calls, ret |-> r.result]
            /\ UNCHANGED cache

Resolve ==
    /\ op = Idle
    /\ \E identifier \in Identifiers :
        \E search \in SearchFor(cache, identifier) :
            LET r == get_course_id(cache, identifier, search)
            IN  /\ op' = [layer |-> "core", name |-> "get_course_id", input |-> identifier,
                          calls |-> r.calls, ret |-> r.id]
                /\ cache' = r.cache

DisplayCode ==
    /\ op = Idle
    /\ \E course_id \in CourseIds :
        /\ op' = [layer |-> "core", name |-> "get_course_code", input |-> course_id,
                  calls |-> <<>>, ret |-> get_course_code(cache, course_id)]
        /\ UNCHANGED cache

\* one invocation of a tool, start to return
Invoke(name, course_identifier, args, h) ==
    /\ op' = [layer |-> "tool", name |-> name,
              input |-> [course_identifier |-> course_identifier, args |-> args],
              calls |-> h.calls, ret |-> h.ret]
    /\ cache' = h.cache

GetCourseStudentSummaries ==
    /\ op = Idle
    /\ \E course_identifier \in HandlerIdentifiers, sort_by \in Range(valid_sort_options) \cup {"bogus"}, pages \in SummaryPageSeqs :
        \E search \in HandlerSearchFor(cache, course_identifier) :
            Invoke("get_course_student_summaries", course_identifier,
                   [sort_by |-> sort_by, upstream |-> pages],
                   get_course_student_summaries(cache, course_identifier, search,
                       sort_by, pages))

GetStudentActivity ==
    /\ op = Idle
    /\ \E course_identifier \in HandlerIdentifiers, reply \in Replies :
        \E search \in HandlerSearchFor(cache, course_identifier) :
            Invoke("get_student_activity", course_identifier, None,
                   get_student_activity(cache, course_identifier, search,
                       reply))

GetStudentAssignmentData ==
    /\ op = Idle
    /\ \E course_identifier \in HandlerIdentifiers, reply \in StudentAssignmentReplies :
        \E search \in HandlerSearchFor(cache, course_identifier) :
            Invoke("get_student_assignment_data", course_identifier, [upstream |-> reply],
                   get_student_assignment_data(cache, course_identifier, search,
                       reply))

GetStudentCommunication ==
    /\ op = Idle
    /\ \E course_identifier \in HandlerIdentifiers, reply \in Replies :
        \E search \in HandlerSearchFor(cache, course_identifier) :
            Invoke("get_student_communication", course_identifier, None,
                   get_student_communication(cache, course_identifier, search,
                       reply))

GetCourseActivity ==
    /\ op = Idle
    /\ \E course_identifier \in HandlerIdentifiers, reply \in ActivityReplies :
        \E search \in HandlerSearchFor(cache, course_identifier) :
            Invoke("get_course_activity", course_identifier, [upstream |-> reply],
                   get_course_activity(cache, course_identifier, search,
                       reply))

GetAssignmentStatistics ==
    /\ op = Idle
    /\ \E course_identifier \in HandlerIdentifiers, reply \in AssignmentStatisticsReplies :
        \E search \in HandlerSearchFor(cache, course_identifier) :
            Invoke("get_assignment_statistics", course_identifier, [upstream |-> reply],
                   get_assignment_statistics(cache, course_identifier, search,
                       reply))

StartCourseReport ==
    /\ op = Idle
    /\ \E course_identifier \in HandlerIdentifiers, report_type \in Range(valid_report_types) \cup {"bogus"}, reply \in Replies :
        \E search \in HandlerSearchFor(cache, course_identifier) :
            Invoke("start_course_report", course_identifier, [report_type |-> report_type],
                   start_course_report(cache, course_identifier, search,
                       report_type, reply))

GetReportStatus ==
    /\ op = Idle
    /\ \E course_identifier \in HandlerIdentifiers, reply \in ReportStatusReplies :
        \E search \in HandlerSearchFor(cache, course_identifier) :
            Invoke("get_report_status", course_identifier, [upstream |-> reply],
                   get_report_status(cache, course_identifier, search,
                       reply))

GetDiscussionParticipationSummary ==
    /\ op = Idle
    /\ \E course_identifier \in HandlerIdentifiers, upstream \in SummaryScenarios :
        \E search \in HandlerSearchFor(cache, course_identifier) :
            Invoke("get_discussion_participation_summary", course_identifier,
                   [upstream |-> upstream],
                   get_discussion_participation_summary(cache, course_identifier, search,
                       upstream.studentPages, upstream.entryPages,
                       upstream.topicReply, upstream.viewReply))

GradeDiscussionParticipation ==
    /\ op = Idle
    /\ \E course_identifier \in HandlerIdentifiers, upstream \in GradingScenarios :
        \E search \in HandlerSearchFor(cache, course_identifier) :
            Invoke("grade_discussion_participation", course_identifier, upstream,
                   grade_discussion_participation(cache, course_identifier, search,
                       upstream.points_for_post, upstream.points_for_reply,
                       upstream.max_points, upstream.dry_run, upstream.assignmentReply,
                       upstream.studentPages, upstream.entryPages, upstream.putReplies))

ExportDiscussionData ==
    /\ op = Idle
    /\ \E course_identifier \in HandlerIdentifiers, upstream \in DiscussionExportScenarios :
        \E search \in HandlerSearchFor(cache, course_identifier) :
            Invoke("export_discussion_data", course_identifier, upstream,
                   export_discussion_data(cache, course_identifier, search,
                       upstream.format, upstream.topicReply, upstream.entryPages))

ExportGrades ==
    /\ op = Idle
    /\ \E course_identifier \in HandlerIdentifiers, upstream \in ExportScenarios :
        \E search \in HandlerSearchFor(cache, course_identifier) :
            Invoke("export_grades", course_identifier, upstream,
                   export_grades(cache, course_identifier, search,
                       upstream.format, upstream.studentPages, upstream.assignmentPages,
                       upstream.submissionPages))

GetAssignmentGroups ==
    /\ op = Idle
    /\ \E course_identifier \in HandlerIdentifiers, pages \in HandlerPageSeqs :
        \E search \in HandlerSearchFor(cache, course_identifier) :
            Invoke("get_assignment_groups", course_identifier, None,
                   get_assignment_groups(cache, course_identifier, search,
                       pages))

CreateAssignmentGroup ==
    /\ op = Idle
    /\ \E course_identifier \in HandlerIdentifiers, reply \in Replies :
        \E search \in HandlerSearchFor(cache, course_identifier) :
            Invoke("create_assignment_group", course_identifier, None,
                   create_assignment_group(cache, course_identifier, search,
                       reply))

UpdateAssignmentGroup ==
    /\ op = Idle
    /\ \E course_identifier \in HandlerIdentifiers, supplied \in {{}, {"name"}, {"weight", "drop_lowest"}, {"drop_highest"}}, reply \in Replies :
        \E search \in HandlerSearchFor(cache, course_identifier) :
            Invoke("update_assignment_group", course_identifier, [supplied |-> supplied],
                   update_assignment_group(cache, course_identifier, search,
                       supplied, reply))

ConfigureLatePolicy ==
    /\ op = Idle
    /\ \E course_identifier \in HandlerIdentifiers, existingReply \in LatePolicyReplies, writeReply \in Replies :
        \E search \in HandlerSearchFor(cache, course_identifier) :
            Invoke("configure_late_policy", course_identifier,
                   [existingReply |-> existingReply, writeReply |-> writeReply],
                   configure_late_policy(cache, course_identifier, search,
                       existingReply, writeReply))

CreateUser ==
    /\ op = Idle
    /\ \E reply \in Replies :
        Invoke("create_user", None, None, create_user(cache, reply))

EnrollUser ==
    /\ op = Idle
    /\ \E course_identifier \in HandlerIdentifiers, enrollment_type \in Range(valid_types) \cup {"Bogus"}, enrollment_state \in Range(valid_states) \cup {"bogus"}, reply \in Replies :
        \E search \in HandlerSearchFor(cache, course_identifier) :
            Invoke("enroll_user", course_identifier, [enrollment_type |-> enrollment_type, enrollment_state |-> enrollment_state],
                   enroll_user(cache, course_identifier, search,
                       enrollment_type, enrollment_state, reply))

SubmitFileForStudent ==
    /\ op = Idle
    /\ \E course_identifier \in HandlerIdentifiers, file_exists \in BOOLEAN, slotReply \in SlotReplies, uploadReply \in UploadReplies, submissionReply \in Replies :
        \E search \in HandlerSearchFor(cache, course_identifier) :
            Invoke("submit_file_for_student", course_identifier,
                   [file_exists |-> file_exists, slotReply |-> slotReply,
                    uploadReply |-> uploadReply, submissionReply |-> submissionReply],
                   submit_file_for_student(cache, course_identifier, search,
                       file_exists, slotReply, uploadReply, submissionReply))

FindAssignment ==
    /\ op = Idle
    /\ \E course_identifier \in HandlerIdentifiers, name_query \in Queries, pages \in NamedPageSeqs, fallbackPages \in NamedPageSeqs :
        \E search \in HandlerSearchFor(cache, course_identifier) :
            Invoke("find_assignment", course_identifier,
                   [name_query |-> name_query, pages |-> pages, fallbackPages |-> fallbackPages],
                   find_assignment(cache, course_identifier, search,
                       name_query, pages, fallbackPages))

FindStudent ==
    /\ op = Idle
    /\ \E course_identifier \in HandlerIdentifiers, name_query \in Queries, pages \in NamedPageSeqs, fallbackPages \in NamedPageSeqs :
        \E search \in HandlerSearchFor(cache, course_identifier) :
            Invoke("find_student", course_identifier, [name_query |-> name_query],
                   find_student(cache, course_identifier, search,
                       name_query, pages, fallbackPages))

FindDiscussion ==
    /\ op = Idle
    /\ \E course_identifier \in HandlerIdentifiers, name_query \in Queries, pages \in NamedPageSeqs :
        \E search \in HandlerSearchFor(cache, course_identifier) :
            Invoke("find_discussion", course_identifier, [name_query |-> name_query],
                   find_discussion(cache, course_identifier, search,
                       name_query, pages))

ListQuizzes ==
    /\ op = Idle
    /\ \E course_identifier \in HandlerIdentifiers, pages \in HandlerPageSeqs :
        \E search \in HandlerSearchFor(cache, course_identifier) :
            Invoke("list_quizzes", course_identifier, None,
                   list_quizzes(cache, course_identifier, search,
                       pages))

GetQuizDetails ==
    /\ op = Idle
    /\ \E course_identifier \in HandlerIdentifiers, reply \in Replies :
        \E search \in HandlerSearchFor(cache, course_identifier) :
            Invoke("get_quiz_details", course_identifier, None,
                   get_quiz_details(cache, course_identifier, search,
                       reply))

CreateQuiz ==
    /\ op = Idle
    /\ \E course_identifier \in HandlerIdentifiers, reply \in Replies :
        \E search \in HandlerSearchFor(cache, course_identifier) :
            Invoke("create_quiz", course_identifier, None,
                   create_quiz(cache, course_identifier, search,
                       reply))

UpdateQuiz ==
    /\ op = Idle
    /\ \E course_identifier \in HandlerIdentifiers, quiz_data \in {{}, {"title"}, {"due_at", "published"}}, reply \in Replies :
        \E search \in HandlerSearchFor(cache, course_identifier) :
            Invoke("update_quiz", course_identifier, [quiz_data |-> quiz_data],
                   update_quiz(cache, course_identifier, search,
                       quiz_data, reply))

DeleteQuiz ==
    /\ op = Idle
    /\ \E course_identifier \in HandlerIdentifiers, quizReply \in Replies, reply \in Replies :
        \E search \in HandlerSearchFor(cache, course_identifier) :
            Invoke("delete_quiz", course_identifier, None,
                   delete_quiz(cache, course_identifier, search,
                       quizReply, reply))

PublishQuiz ==
    /\ op = Idle
    /\ \E course_identifier \in HandlerIdentifiers, reply \in Replies :
        \E search \in HandlerSearchFor(cache, course_identifier) :
            Invoke("publish_quiz", course_identifier, None,
                   publish_quiz(cache, course_identifier, search,
                       reply))

UnpublishQuiz ==
    /\ op = Idle
    /\ \E course_identifier \in HandlerIdentifiers, reply \in Replies :
        \E search \in HandlerSearchFor(cache, course_identifier) :
            Invoke("unpublish_quiz", course_identifier, None,
                   unpublish_quiz(cache, course_identifier, search,
                       reply))

ListQuizQuestions ==
    /\ op = Idle
    /\ \E course_identifier \in HandlerIdentifiers, pages \in HandlerPageSeqs :
        \E search \in HandlerSearchFor(cache, course_identifier) :
            Invoke("list_quiz_questions", course_identifier, None,
                   list_quiz_questions(cache, course_identifier, search,
                       pages))

AddQuizQuestion ==
    /\ op = Idle
    /\ \E course_identifier \in HandlerIdentifiers, answers \in {NoAnswers} \cup AnswersTexts, reply \in Replies :
        \E search \in HandlerSearchFor(cache, course_identifier) :
            Invoke("add_quiz_question", course_identifier, [answers |-> answers],
                   add_quiz_question(cache, course_identifier, search,
                       answers, reply))

UpdateQuizQuestion ==
    /\ op = Idle
    /\ \E course_identifier \in HandlerIdentifiers, supplied \in {{}, {"question_text"}, {"points_possible", "position"}}, answers \in {NoAnswers} \cup AnswersTexts, reply \in Replies :
        \E search \in HandlerSearchFor(cache, course_identifier) :
            Invoke("update_quiz_question", course_identifier, [supplied |-> supplied, answers |-> answers],
                   update_quiz_question(cache, course_identifier, search,
                       supplied, answers, reply))

DeleteQuizQuestion ==
    /\ op = Idle
    /\ \E course_identifier \in HandlerIdentifiers, reply \in Replies :
        \E search \in HandlerSearchFor(cache, course_identifier) :
            Invoke("delete_quiz_question", course_identifier, None,
                   delete_quiz_question(cache, course_identifier, search,
                       reply))

GetQuizStatistics ==
    /\ op = Idle
    /\ \E course_identifier \in HandlerIdentifiers, reply \in StatisticsReplies :
        \E search \in HandlerSearchFor(cache, course_identifier) :
            Invoke("get_quiz_statistics", course_identifier, None,
                   get_quiz_statistics(cache, course_identifier, search,
                       reply))

ListQuizSubmissions ==
    /\ op = Idle
    /\ \E course_identifier \in HandlerIdentifiers, reply \in SubmissionsReplies :
        \E search \in HandlerSearchFor(cache, course_identifier) :
            Invoke("list_quiz_submissions", course_identifier, None,
                   list_quiz_submissions(cache, course_identifier, search,
                       reply))

(* --------------------------- message templates ------------------------ *)

\* the text of a template: literal stretches, elided, and replacement fields
\* {name}; a caller's template may also hold a positional field {0}
L == [lit |-> "..."]

V(name) == [var |-> name]

Positional == [pos |-> 0]

PEER_REVIEW_TEMPLATES ==
    <<
       << "urgent_no_reviews",
          [subject |-> <<L, V("assignment_name"), L>>,
           body |-> <<L, V("student_name"), L, V("assignment_name"), L, V("total_assigned"), L, V("assignment_url"), L, V("instructor_name")>>] >>,
       << "partial_completion",
          [subject |-> <<L, V("assignment_name")>>,
           body |-> <<L, V("student_name"), L, V("completed_count"), L, V("assignment_name"), L, V("remaining_count"), L, V("assignment_url"), L, V("instructor_name")>>] >>,
       << "general_reminder",
          [subject |-> <<L, V("assignment_name")>>,
           body |-> <<L, V("student_name"), L, V("assignment_name"), L, V("assignment_url"), L, V("instructor_name")>>] >>
    >>

ASSIGNMENT_TEMPLATES ==
    <<
       << "deadline_approaching",
          [subject |-> <<L, V("assignment_name"), L, V("deadline")>>,
           body |-> <<L, V("student_name"), L, V("assignment_name"), L, V("deadline"), L, V("assignment_description"), L, V("assignment_url"), L, V("instructor_name")>>] >>,
       << "late_submission",
          [subject |-> <<L, V("assignment_name")>>,
           body |-> <<L, V("student_name"), L, V("assignment_name"), L, V("deadline"), L, V("assignment_url"), L, V("instructor_name")>>] >>
    >>

DISCUSSION_TEMPLATES ==
    <<
       << "participation_reminder",
          [subject |-> <<L, V("discussion_title")>>,
           body |-> <<L, V("student_name"), L, V("discussion_title"), L, V("discussion_url"), L, V("deadline"), L, V("instructor_name")>>] >>
    >>

GRADE_TEMPLATES ==
    <<
       << "grade_available",
          [subject |-> <<L, V("assignment_name")>>,
           body |-> <<L, V("student_name"), L, V("assignment_name"), L, V("assignment_url"), L, V("instructor_name")>>] >>
    >>

GRADING_FEEDBACK_TEMPLATES ==
    <<
       << "excellent",
          [subject |-> <<L, V("assignment_name")>>,
           body |-> <<V("student_name"), L, V("assignment_name"), L, V("score"), L, V("max_score"), L, V("criterion_name"), L>>] >>,
       << "good",
          [subject |-> <<L, V("assignment_name")>>,
           body |-> <<V("student_name"), L, V("assignment_name"), L, V("score"), L, V("max_score"), L, V("criterion_name"), L>>] >>,
       << "needs_improvement",
          [subject |-> <<L, V("assignment_name")>>,
           body |-> <<V("student_name"), L, V("score"), L, V("max_score"), L, V("assignment_name"), L, V("criterion_name"), L>>] >>,
       << "missing",
          [subject |-> <<L, V("assignment_name")>>,
           body |-> <<V("student_name"), L, V("assignment_name"), L, V("max_score"), L>>] >>,
       << "late_submission",
          [subject |-> <<L, V("assignment_name")>>,
           body |-> <<V("student_name"), L, V("assignment_name"), L, V("score"), L, V("max_score"), L, V("criterion_name"), L, V("feedback_comment"), L>>] >>,
       << "criterion_excellent",
          [subject |-> <<>>,
           body |-> <<V("criterion_name"), L, V("score"), L, V("max_score"), L, V("feedback_comment")>>] >>,
       << "criterion_good",
          [subject |-> <<>>,
           body |-> <<V("criterion_name"), L, V("score"), L, V("max_score"), L, V("feedback_comment")>>] >>,
       << "criterion_needs_work",
          [subject |-> <<>>,
           body |-> <<V("criterion_name"), L, V("score"), L, V("max_score"), L, V("feedback_comment")>>] >>,
       << "criterion_missing",
          [subject |-> <<>>,
           body |-> <<V("criterion_name"), L, V("max_score"), L>>] >>
    >>

\* list(d.keys()): the keys in insertion order
Keys(d) == [i \in 1..Len(d) |-> d[i][1]]

\* key in d
dict_has(d, key) == \E i \in 1..Len(d) : d[i][1] = key

\* d.get(key): None when the key is absent
dict_get(d, key) ==
    IF dict_has(d, key)
    THEN d[CHOOSE i \in 1..Len(d) : d[i][1] = key][2]
    ELSE None

category_map ==
    << <<"peer_review", PEER_REVIEW_TEMPLATES>>,
       <<"assignment", ASSIGNMENT_TEMPLATES>>,
       <<"discussion", DISCUSSION_TEMPLATES>>,
       <<"grade", GRADE_TEMPLATES>>,
       <<"grading_feedback", GRADING_FEEDBACK_TEMPLATES>> >>

get_template(category, template_name) ==
    LET category_templates == dict_get(category_map, category)
    IN  \* if not category_templates: return None
        IF ~dict_has(category_map, category) THEN None
        ELSE IF category_templates = <<>> THEN None
        ELSE dict_get(category_templates, template_name)

\* what a method of MessageTemplates gives: a value, or an exception
Value(v) == [kind |-> "return", value |-> v]

Raises(exc, text, key) == [kind |-> "raise", exc |-> exc, text |-> text, key |-> key]

\* text.format(**variables): every {name} replaced by variables[name]; the
\* first field that cannot be replaced raises KeyError(name), or IndexError
\* for a positional field
str_format(text, variables) ==
    LET failing == {i \in 1..Len(text) :
                       \/ "pos" \in DOMAIN text[i]
                       \/ "var" \in DOMAIN text[i] /\ text[i].var \notin DOMAIN variables}
        first == CHOOSE i \in failing : \A j \in failing : i <= j
    IN  IF failing = {}
        THEN Value([i \in 1..Len(text) |->
                       IF "var" \in DOMAIN text[i] THEN [lit |-> variables[text[i].var]]
                       ELSE text[i]])
        ELSE IF "pos" \in DOMAIN text[first]
        THEN Raises("IndexError", <<"Replacement", "index", "out", "of", "range">>, "0")
        ELSE Raises("KeyError", <<>>, text[first].var)

\* the body of the try: template["subject"].format(...), template["body"].format(...)
format_subject_and_body(template, variables) ==
    IF "subject" \notin DOMAIN template THEN Raises("KeyError", <<>>, "subject")
    ELSE LET formatted_subject == str_format(template.subject, variables)
         IN  IF formatted_subject.kind = "raise" THEN formatted_subject
             ELSE IF "body" \notin DOMAIN template THEN Raises("KeyError", <<>>, "body")
             ELSE LET formatted_body == str_format(template.body, variables)
                  IN  IF formatted_body.kind = "raise" THEN formatted_body
                      ELSE Value([subject |-> formatted_subject.value,
                                  body |-> formatted_body.value])

\* variant: without the try, the KeyError of str.format leaves the method
format_template_unguarded(template, variables) ==
    format_subject_and_body(template, variables)

format_template(template, variables) ==
    LET formatted == format_subject_and_body(template, variables)
    IN  IF formatted.kind = "return" THEN formatted
        ELSE IF formatted.exc = "KeyError"
        THEN Raises("ValueError", <<"Missing", "template", "variable", ":">>, formatted.key)
        ELSE Raises("ValueError", <<"Template", "formatting", "error", ":">>, formatted.key)

get_formatted_template(category, template_name, variables) ==
    LET template == get_template(category, template_name)
    IN  IF template = None THEN Value(None)
        ELSE format_template(template, variables)

list_available_templates ==
    << <<"peer_review", Keys(PEER_REVIEW_TEMPLATES)>>,
       <<"assignment", Keys(ASSIGNMENT_TEMPLATES)>>,
       <<"discussion", Keys(DISCUSSION_TEMPLATES)>>,
       <<"grade", Keys(GRADE_TEMPLATES)>>,
       <<"grading_feedback", Keys(GRADING_FEEDBACK_TEMPLATES)>> >>

\* create_default_variables() without arguments
create_default_variables ==
    [student_name |-> "Student", assignment_name |-> "Assignment",
     instructor_name |-> "Instructor", course_name |-> "Course",
     assignment_url |-> "", discussion_url |-> "", deadline |-> "",
     total_assigned |-> "2", completed_count |-> "0", remaining_count |-> "2",
     assignment_description |-> ""]

\* variables.update(kwargs)
updated(variables, kwargs) ==
    [k \in DOMAIN variables \cup DOMAIN kwargs |->
        IF k \in DOMAIN kwargs THEN kwargs[k] ELSE variables[k]]

\* the categories and names a caller may ask for: the ones served, an
\* unknown one and the empty string
AskedCategories == Range(Keys(category_map)) \cup {"bogus", ""}

AskedNames ==
    UNION {Range(Keys(category_map[i][2])) : i \in 1..Len(category_map)} \cup {"bogus", ""}

\* the variables a caller may supply: one that no template uses, one that
\* most use, the defaults, the defaults with the discussion title, and
\* every variable a template uses
SuppliedVariables ==
    { [course_name |-> "Course"],
      [student_name |-> "Ann"],
      create_default_variables,
      updated(create_default_variables, [discussion_title |-> "Week 1"]),
      updated(create_default_variables,
              [discussion_title |-> "Week 1", score |-> "8", max_score |-> "10",
               criterion_name |-> "Clarity", feedback_comment |-> ""]) }

\* the templates a caller may hand to format_template: the ones served,
\* and ones of the caller's making: no body, no subject, a positional field
GivenTemplates ==
    UNION {{category_map[i][2][j][2] : j \in 1..Len(category_map[i][2])} :
              i \in 1..Len(category_map)}
    \cup { [subject |-> <<L>>], [body |-> <<L, V("student_name")>>],
           [subject |-> <<L, Positional>>, body |-> <<L>>],
           [subject |-> <<V("student_name")>>, body |-> <<Positional, V("nobody")>>] }

\* a call of a method of MessageTemplates, start to return
Call(name, input, ret) ==
    /\ op' = [layer |-> "templates", name |-> name, input |-> input,
              calls |-> <<>>, ret |-> ret]
    /\ UNCHANGED cache

GetTemplate ==
    /\ op = Idle
    /\ \E category \in AskedCategories, template_name \in AskedNames :
        Call("get_template", [category |-> category, template_name |-> template_name],
             Value(get_template(category, template_name)))

FormatTemplate ==
    /\ op = Idle
    /\ \E template \in GivenTemplates, variables \in SuppliedVariables :
        Call("format_template", [template |-> template, variables |-> variables],
             format_template(template, variables))

GetFormattedTemplate ==
    /\ op = Idle
    /\ \E category \in AskedCategories, template_name \in AskedNames, variables \in SuppliedVariables :
        Call("get_formatted_template",
             [category |-> category, template_name |-> template_name,
              variables |-> variables],
             get_formatted_template(category, template_name, variables))

ListAvailableTemplates ==
    /\ op = Idle
    /\ Call("list_available_templates", None, Value(list_available_templates))

\* the caller takes the result; the server waits for the next invocation
Deliver ==
    /\ op # Idle
    /\ op' = Idle
    /\ UNCHANGED cache

Next ==
    \/ Deliver
    \/ Request
    \/ FetchAll
    \/ Resolve
    \/ DisplayCode
    \/ GetCourseStudentSummaries
    \/ GetStudentActivity
    \/ GetStudentAssignmentData
    \/ GetStudentCommunication
    \/ GetCourseActivity
    \/ GetAssignmentStatistics
    \/ StartCourseReport
    \/ GetReportStatus
    \/ GetDiscussionParticipationSummary
    \/ GradeDiscussionParticipation
    \/ ExportDiscussionData
    \/ ExportGrades
    \/ GetAssignmentGroups
    \/ CreateAssignmentGroup
    \/ UpdateAssignmentGroup
    \/ ConfigureLatePolicy
    \/ CreateUser
    \/ EnrollUser
    \/ SubmitFileForStudent
    \/ FindAssignment
    \/ FindStudent
    \/ FindDiscussion
    \/ ListQuizzes
    \/ GetQuizDetails
    \/ CreateQuiz
    \/ UpdateQuiz
    \/ DeleteQuiz
    \/ PublishQuiz
    \/ UnpublishQuiz
    \/ ListQuizQuestions
    \/ AddQuizQuestion
    \/ UpdateQuizQuestion
    \/ DeleteQuizQuestion
    \/ GetQuizStatistics
    \/ ListQuizSubmissions
    \/ GetTemplate
    \/ FormatTemplate
    \/ GetFormattedTemplate
    \/ ListAvailableTemplates

Spec == Init /\ [][Next]_vars

(* ------------------------------ tool claims --------------------------- *)

\* the handler's own Gateway calls that yielded a Failure; the course search
\* is the resolver's call, not the handler's
FailedCalls(o) ==
    {i \in 1..Len(o.calls) :
        /\ ~o.calls[i].ok
        /\ ~(o.calls[i].method = "get" /\ o.calls[i].path = "/courses")}

\* C1: no exception crosses a tool-handler boundary: whatever each Gateway
\* call of the invocation yields (a Failure, or a Success holding an object,
\* an array or nothing), the invocation ends by returning a string.
C1_NoExceptionCrossesBoundary ==
    op.layer = "tool" => op.ret.kind = "str"

\* the gated parameter of the invocation is outside its valid list
InvalidGatedParameter(o) ==
    \/ /\ o.name = "get_course_student_summaries"
       /\ o.input.args.sort_by \notin Range(valid_sort_options)
    \/ /\ o.name = "start_course_report"
       /\ o.input.args.report_type \notin Range(valid_report_types)
    \/ /\ o.name = "enroll_user"
       /\ \/ o.input.args.enrollment_type \notin Range(valid_types)
          \/ o.input.args.enrollment_state \notin Range(valid_states)

\* C2: a validation failure is rejected before any network call: with a
\* gated parameter outside its valid list, for a numeric identifier as for
\* an uncached code, the handler returns a message enumerating the valid
\* options and the invocation has issued no Gateway request, the resolver's
\* included.
C2_ValidationBeforeAnyCall ==
    (op.layer = "tool" /\ InvalidGatedParameter(op)) =>
        /\ op.ret.kind = "str"
        /\ op.ret.class = "validation"
        /\ op.ret.options # <<>>
        /\ op.calls = <<>>

AuxiliaryCalls ==
    { <<"delete_quiz", "get", "/courses/{course_id}/quizzes/{quiz_id}">>,
      <<"configure_late_policy", "get", "/courses/{course_id}/late_policy">>,
      <<"get_discussion_participation_summary", "get",
        "/courses/{course_id}/discussion_topics/{topic_id}">>,
      <<"get_discussion_participation_summary", "get",
        "/courses/{course_id}/discussion_topics/{topic_id}/view">>,
      <<"export_discussion_data", "get",
        "/courses/{course_id}/discussion_topics/{topic_id}">>,
      <<"find_assignment", "get", "/courses/{course_id}/assignments">>,
      <<"find_student", "get", "/courses/{course_id}/users">>,
      <<"grade_discussion_participation", "put",
        "/courses/{course_id}/assignments/{assignment_id}/submissions/{student_id}">> }
    \cup { <<"export_grades", "get", SubmissionsPath([id |-> aid])>> : aid \in 1..3 }

Absorbed(o, i) == <<o.name, o.calls[i].method, o.calls[i].path>> \in AuxiliaryCalls

C4_ErrorsCarryThePrefix ==
    (op.layer = "tool" /\ op.ret.kind = "str" /\ op.ret.class \in {"validation", "error"}) =>
        /\ op.ret.text[1] = "Error"
        /\ ":" \in Range(op.ret.text)

\* the student ids a sequence of pages holds
IdsIn(pages) ==
    UNION {{str_get(pages[i].body.items[j], "id") : j \in 1..Len(pages[i].body.items)} :
              i \in 1..Len(pages)}

\* the text is the given one-character ids separated by commas
CommaJoined(text, ids) ==
    /\ Len(text) = IF ids = <<>> THEN 0 ELSE 2 * Len(ids) - 1
    /\ \A i \in 1..Len(ids) : text[2 * i - 1] = ids[i][1]
    /\ \A i \in 1..(Len(ids) - 1) : text[2 * i] = ","

NoRepeat(seq) == Cardinality(Range(seq)) = Len(seq)

\* C12: in the participation summary every enrolled student sits in exactly
\* one of the four lists: Full Participant iff posts > 0 and replies > 0,
\* Posted Only iff posts > 0 and replies = 0, Replied Only iff posts = 0 and
\* replies > 0, Silent iff both are 0; the four counts sum to the student
\* count, the participant count is the total minus the silent, and the
\* silent-ID string is the comma-joined ids of the silent students (entries
\* [{user 1, reply by user 1}], students [1, 2]: 1 full, 2 silent, "2").
C12_OneCategoryPerStudent ==
    (op.name = "get_discussion_participation_summary" /\ op.ret.class = "report") =>
        LET d == op.ret.data
            up == op.input.args.upstream
            posts(sid) == IF sid \in DOMAIN d.participation
                          THEN d.participation[sid].posts ELSE 0
            replies(sid) == IF sid \in DOMAIN d.participation
                            THEN d.participation[sid].replies ELSE 0
        IN  /\ Range(d.student_ids) = IdsIn(up.studentPages)
            /\ \A sid \in IdsIn(up.studentPages) :
                /\ sid \in Range(d.full_participants) <=> posts(sid) > 0 /\ replies(sid) > 0
                /\ sid \in Range(d.posters_only) <=> posts(sid) > 0 /\ replies(sid) = 0
                /\ sid \in Range(d.repliers_only) <=> posts(sid) = 0 /\ replies(sid) > 0
                /\ sid \in Range(d.silent) <=> posts(sid) = 0 /\ replies(sid) = 0
            /\ NoRepeat(d.full_participants) /\ NoRepeat(d.posters_only)
            /\ NoRepeat(d.repliers_only) /\ NoRepeat(d.silent)
            /\ Range(d.full_participants) \cup Range(d.posters_only)
                   \cup Range(d.repliers_only) \cup Range(d.silent) = IdsIn(up.studentPages)
            /\ Len(d.full_participants) + Len(d.posters_only)
                   + Len(d.repliers_only) + Len(d.silent) = d.total_students
            /\ d.total_students = Cardinality(IdsIn(up.studentPages))
            /\ d.total_participants = d.total_students - Len(d.silent)
            /\ CommaJoined(d.silent_ids, d.silent)
            /\ (/\ up.entryPages = <<OkReply(Arr(FixtureEntries))>>
                /\ up.studentPages = <<OkReply(Arr(<<[id |-> 1], [id |-> 2]>>))>>
                /\ up.viewReply = TransportError) =>
                   /\ d.full_participants = <<str(1)>>
                   /\ d.silent = <<str(2)>>
                   /\ d.silent_ids = <<"2">>

\* C12 witness: the summary of the test's topic, student 1 full, student 2 silent
C12_Witness ==
    /\ op.name = "get_discussion_participation_summary"
    /\ op.ret.class = "report"
    /\ op.input.args.upstream.entryPages = <<OkReply(Arr(FixtureEntries))>>
    /\ op.ret.data.full_participants = <<str(1)>>
    /\ op.ret.data.silent_ids = <<"2">>

\* the count a student record holds under a key: 0 when absent or null
CountOf(rec, key) ==
    IF key \notin DOMAIN rec THEN 0
    ELSE IF rec[key] = JNull THEN 0
    ELSE rec[key].v

\* the late or missing count of a student record
TardinessOf(st, key) ==
    IF "tardiness_breakdown" \notin DOMAIN st THEN 0
    ELSE CountOf(st.tardiness_breakdown.fields, key)

\* the students the summaries fetch returned, all pages together
RECURSIVE AllItems(_)
AllItems(pages) ==
    IF pages = <<>> THEN <<>> ELSE pages[1].body.items \o AllItems(Tail(pages))

DividingReports ==
    {"get_discussion_participation_summary", "get_student_assignment_data",
     "get_assignment_statistics", "get_course_activity"}

\* the Gateway answered the analytics request with a list of at least one row
RowsReturned(o) ==
    /\ o.input.args.upstream.t = "ok"
    /\ o.input.args.upstream.body.k = "array"
    /\ o.input.args.upstream.body.items # <<>>

\* C14: no report divides by zero. None of the four reports ends in a
\* ZeroDivisionError; with no enrolled student the participation overview
\* shows 0%, with no points possible the overall grade is 0, with no
\* submission the late line is the plain "Late Submissions: 0", with no
\* activity every category shows 0%, and the report is returned all the same.
C14_NoDivisionByZero ==
    /\ op.name \in DividingReports => op.ret # Raised("ZeroDivisionError")
    /\ (/\ op.name = "get_discussion_participation_summary"
        /\ op.ret.class = "report"
        /\ op.ret.data.total_students = 0) => op.ret.data.overview = Figure(0)
    /\ (op.name = "get_student_assignment_data" /\ RowsReturned(op)) =>
           /\ op.ret.class = "report"
           /\ op.ret.data.total_points_possible = 0 =>
                  op.ret.data.overall_percent = Figure(0)
    /\ (/\ op.name = "get_assignment_statistics"
        /\ RowsReturned(op)
        /\ op.ret.class # "exception") =>
           /\ op.ret.class = "report"
           /\ op.ret.data.total_submissions = 0 =>
                  op.ret.data.late_submissions = Fallback
    /\ (op.name = "get_course_activity" /\ RowsReturned(op)) =>
           /\ op.ret.class = "report"
           /\ op.ret.data.total_activity = 0 =>
                  \A k \in DOMAIN op.ret.data.percentages :
                      op.ret.data.percentages[k] = Figure(0)

\* C14 witness: a student graded on assignments worth no points gets the
\* report with an overall grade of 0
C14_Witness ==
    /\ op.name = "get_student_assignment_data"
    /\ op.ret.class = "report"
    /\ op.ret.data.submitted_count > 0
    /\ op.ret.data.total_points_earned > 0
    /\ op.ret.data.total_points_possible = 0
    /\ op.ret.data.overall_percent = Figure(0)

\* what a dry run reads: the assignment, the students, the entries
GradingReads ==
    {"/courses/{course_id}/assignments/{assignment_id}",
     "/courses/{course_id}/users",
     "/courses/{course_id}/discussion_topics/{topic_id}/entries"}

DryRun(o) == o.name = "grade_discussion_participation" /\ o.input.args.dry_run

MarkedDryRun(o) == Len(o.ret.text) >= 2 /\ SubSeq(o.ret.text, 1, 2) = <<"DRY", "RUN">>

\* C15 as stated: with dry_run = True the only Gateway calls of the
\* invocation are the GET of the assignment and the pages of the two
\* fetches, and the grading it returns is marked DRY RUN.
C15_DryRunOnlyReadsTheThree ==
    DryRun(op) =>
        /\ \A i \in 1..Len(op.calls) :
              op.calls[i].method = "get" /\ op.calls[i].path \in GradingReads
        /\ op.ret.class = "report" => MarkedDryRun(op)

\* C15 amended: with dry_run = True no PUT is ever issued; apart from the
\* course lookup of the Resolver, which comes first and at most once, every
\* Gateway call is a GET of the assignment, the students or the entries, and
\* the grading it returns is marked DRY RUN and reports nothing submitted.
C15_DryRunNeverWrites ==
    DryRun(op) =>
        /\ \A i \in 1..Len(op.calls) :
              /\ op.calls[i].method = "get"
              /\ \/ op.calls[i].path \in GradingReads
                 \/ i = 1 /\ op.calls[i].path = "/courses"
        /\ op.ret.class = "report" =>
              /\ MarkedDryRun(op)
              /\ op.ret.data.successful = 0 /\ op.ret.data.failed = 0

\* C15 witness: a dry run for an uncached course code computes two grades
\* after the lookup and the three reads
C15_Witness ==
    /\ DryRun(op)
    /\ op.ret.class = "report"
    /\ Len(op.ret.data.grades) = 2
    /\ Len(op.calls) = 4
    /\ op.calls[1].path = "/courses"

Graded(o) == o.name = "grade_discussion_participation" /\ o.ret.class = "report"

\* the entries the student wrote
PostsBy(entries, sid) ==
    Cardinality({i \in 1..Len(entries) : str_get(entries[i], "user_id") = sid})

\* the recent replies the student wrote under the entries that name their author
RepliesBy(entries, sid) ==
    LET replies(i) == list_get(entries[i], "recent_replies")
        authored == {i \in 1..Len(entries) : str_get(entries[i], "user_id") # <<>>}
    IN  Cardinality(UNION {{<<i, j>> : j \in {k \in 1..Len(replies(i)) :
                                          str_get(replies(i)[k], "user_id") = sid}} :
                              i \in authored})

\* C16: every enrolled student gets one grade, and its final score is
\* min(posts * points_for_post + replies * points_for_reply, cap) with the
\* student's posts and replies counted from the entries and their
\* recent_replies; no final score exceeds the cap, and 1 post at 5 with 2
\* replies at 3 under a cap of 10 gives 10, not 11.
C16_FinalScoreIsCapped ==
    Graded(op) =>
        LET d == op.ret.data
            up == op.input.args
            entries == AllItems(up.entryPages)
            cap == d.points_possible.v
        IN  /\ Range(d.student_ids) = IdsIn(up.studentPages)
            /\ Len(d.grades) = Len(d.student_ids)
            /\ \A i \in 1..Len(d.student_ids) :
                LET posts == PostsBy(entries, d.student_ids[i])
                    replies == RepliesBy(entries, d.student_ids[i])
                    raw == posts * up.points_for_post + replies * up.points_for_reply
                IN  /\ d.grades[i].posts = posts
                    /\ d.grades[i].replies = replies
                    /\ d.grades[i].final_score = IF raw <= cap THEN raw ELSE cap
                    /\ d.grades[i].final_score <= cap
                    /\ (/\ posts = 1 /\ replies = 2 /\ cap = 10
                        /\ up.points_for_post = 5 /\ up.points_for_reply = 3) =>
                           d.grades[i].final_score = 10

\* C16 witness: one post at 5 and two replies at 3 under a cap of 10 are
\* graded 10 while the raw score is 11
C16_Witness ==
    /\ Graded(op)
    /\ op.input.args.points_for_post = 5
    /\ op.ret.data.points_possible = Num(10)
    /\ \E i \in 1..Len(op.ret.data.grades) :
          /\ op.ret.data.grades[i].posts = 1
          /\ op.ret.data.grades[i].replies = 2
          /\ op.ret.data.grades[i].raw_score = 11
          /\ op.ret.data.grades[i].final_score = 10

\* the points_possible the assignment of the invocation holds: 10 if it has none
AssignmentPoints(o) ==
    LET body == o.input.args.assignmentReply.body
    IN  IF "points_possible" \in DOMAIN body /\ body.points_possible.t = "num"
        THEN body.points_possible
        ELSE Num(10)

\* C17: the cap of grade_discussion_participation is max_points whenever
\* max_points is supplied, whatever its value, and the assignment's
\* points_possible (10 if it has none) only when max_points is not supplied.
C17_MaxPointsOverrides ==
    Graded(op) =>
        op.ret.data.points_possible =
            IF op.input.args.max_points.given
            THEN Num(op.input.args.max_points.value)
            ELSE AssignmentPoints(op)

\* the calls of the invocation to the late policy of the course
LatePolicyCalls(o) ==
    SelectSeq(o.calls, LAMBDA call : call.path = "/courses/{course_id}/late_policy")

\* the GET found a policy: a non-error object with a non-empty late_policy
PolicyExists(reply) ==
    reply.t = "ok" /\ reply.body.k = "object" /\ "late_policy" \in reply.body.fields

Updates == {"update_quiz", "update_assignment_group", "update_quiz_question"}

\* the update fields the invocation supplied
SuppliedFields(o) ==
    IF o.name = "update_quiz" THEN o.input.args.quiz_data
    ELSE IF o.name = "update_assignment_group" THEN o.input.args.supplied
    ELSE o.input.args.supplied
             \cup (IF o.input.args.answers # NoAnswers THEN {"answers"} ELSE {})

\* the keys of the body: weight goes as group_weight, the drops go inside rules
BodyOf(o) ==
    IF o.name = "update_assignment_group"
    THEN {IF k = "weight" THEN "group_weight" ELSE k :
             k \in SuppliedFields(o) \ {"drop_lowest", "drop_highest"}}
         \cup (IF SuppliedFields(o) \cap {"drop_lowest", "drop_highest"} # {}
               THEN {"rules"} ELSE {})
    ELSE SuppliedFields(o)

\* the answers of update_quiz_question are absent or parse
AnswersParse(o) ==
    o.name = "update_quiz_question" =>
        (o.input.args.answers = NoAnswers \/ ~JSONDecodeError(o.input.args.answers))

\* C19: an update handler called with none of its update fields returns
\* "No update parameters provided." and issues no Gateway request; called
\* with at least one field it issues exactly one PUT, whose body holds
\* exactly the supplied fields.
C19_NoFieldsNoRequest ==
    (op.name \in Updates /\ AnswersParse(op)) =>
        IF SuppliedFields(op) = {}
        THEN /\ op.ret.text = <<"No", "update", "parameters", "provided.">>
             /\ op.calls = <<>>
        ELSE /\ Cardinality({i \in 1..Len(op.calls) : op.calls[i].method = "put"}) = 1
             /\ op.ret.class = "report" =>
                   /\ op.ret.data.sent = BodyOf(op)
                   /\ op.name = "update_assignment_group" =>
                          op.ret.data.rules =
                              SuppliedFields(op) \cap {"drop_lowest", "drop_highest"}

\* the invocation supplied an answers string that json.loads rejects
InvalidAnswers(o) ==
    /\ o.name \in {"add_quiz_question", "update_quiz_question"}
    /\ o.input.args.answers # NoAnswers
    /\ JSONDecodeError(o.input.args.answers)

\* C20: add_quiz_question and update_quiz_question called with an answers
\* string that is not valid JSON return "Error: 'answers' must be a valid
\* JSON array." and no Gateway request has been issued, so nothing is
\* created or updated.
C20_InvalidAnswersNoRequest ==
    InvalidAnswers(op) =>
        /\ op.ret.text = <<"Error", ":", "'answers'", "must", "be", "a", "valid", "JSON", "array.">>
        /\ op.calls = <<>>

\* the page requests of the invocation on a path
CallsOn(o, path) == SelectSeq(o.calls, LAMBDA call : call.path = path)

\* the page requests one paginated fetch makes: every page, or up to the first that fails
PagesFetched(pages) ==
    LET bad == {i \in 1..Len(pages) : pages[i].t # "ok"}
    IN  IF bad = {} THEN Len(pages) ELSE CHOOSE i \in bad : \A j \in bad : i <= j

\* the items of the pages whose name contains the query, whatever the case
NamedLike(name_query, pages) ==
    SelectSeq(AllItems(pages), LAMBDA a : Contains(lower(name_query), lower(a.name)))

\* C21: find_assignment makes the fetch with search_term once, and the fetch
\* without it once iff the first succeeded and none of its items contains
\* the query, case-insensitively, in its name; the matches reported are
\* exactly the items of the fetch used that contain the query; a Failure of
\* the first fetch is returned as "Error searching assignments: ..." with no
\* second fetch.
C21_FallbackOnlyWithoutMatch ==
    op.name = "find_assignment" =>
        LET up == op.input.args
            first == CallsOn(op, "/courses/{course_id}/assignments?search_term={name_query}")
            second == CallsOn(op, "/courses/{course_id}/assignments")
            first_ok == \A i \in 1..Len(up.pages) : up.pages[i].t = "ok"
            found == IF first_ok THEN NamedLike(up.name_query, up.pages) ELSE <<>>
            falls_back == first_ok /\ found = <<>>
            fallback_ok == \A i \in 1..Len(up.fallbackPages) : up.fallbackPages[i].t = "ok"
            expected == IF found # <<>> THEN found
                        ELSE IF falls_back /\ fallback_ok
                        THEN NamedLike(up.name_query, up.fallbackPages)
                        ELSE <<>>
        IN  /\ Len(first) = PagesFetched(up.pages)
            /\ Len(second) = IF falls_back THEN PagesFetched(up.fallbackPages) ELSE 0
            /\ \A i \in 1..Len(op.calls) :
                  \/ op.calls[i] \in Range(first) \cup Range(second)
                  \/ i = 1 /\ op.calls[i].path = "/courses"
            /\ ~first_ok =>
                  /\ op.ret.class = "error"
                  /\ op.ret.text = <<"Error", "searching", "assignments", ":">>
            /\ first_ok =>
                  IF expected = <<>>
                  THEN op.ret.class = "message"
                  ELSE op.ret.class = "report" /\ op.ret.data.matches = expected

\* C21 witness: the search returned nothing that matches, the full list did
C21_Witness ==
    /\ op.name = "find_assignment"
    /\ op.input.args.name_query = <<"B">>
    /\ op.input.args.pages = <<OkReply(Arr(<<>>))>>
    /\ Len(CallsOn(op, "/courses/{course_id}/assignments")) = 1
    /\ op.ret.class = "report"
    /\ Len(op.ret.data.matches) = 2

\* the three steps of the upload protocol, in order
UploadSteps ==
    << "/courses/{course_id}/assignments/{assignment_id}/submissions/{user_id}/files",
       "{upload_url}",
       "/courses/{course_id}/assignments/{assignment_id}/submissions" >>

\* the calls of the invocation after the course lookup of the Resolver
OwnCalls(o) == SelectSeq(o.calls, LAMBDA call : call.path # "/courses")

\* the reply is a 2xx object holding a truthy value under the key
Returned(reply, key) ==
    reply.t = "ok" /\ reply.body.k = "object" /\ key \in reply.body.fields

\* C22: submit_file_for_student requests the slot, uploads the file and
\* creates the submission, in that order and each at most once: the upload
\* is attempted only after a slot request that succeeded and returned an
\* upload_url, the submission only after an upload that succeeded and
\* returned a file id, and it is created with that id; a Failure at a step
\* is returned as that step's error string with no later step attempted; a
\* missing local file is an error returned before the slot is requested.
C22_ThreeStepsInOrder ==
    op.name = "submit_file_for_student" =>
        LET up == op.input.args
            own == OwnCalls(op)
            step2 == up.file_exists /\ Returned(up.slotReply, "upload_url")
            step3 == step2 /\ Returned(up.uploadReply, "id")
            steps == IF ~up.file_exists THEN 0
                     ELSE IF ~step2 THEN 1 ELSE IF ~step3 THEN 2 ELSE 3
            FailedAt(reply, text) ==
                reply.t # "ok" => /\ op.ret.class = "error"
                                  /\ op.ret.text = text
                                  /\ op.ret.error = ErrorMessage(reply)
        IN  /\ Len(own) = steps
            /\ \A i \in 1..Len(own) : own[i].method = "post" /\ own[i].path = UploadSteps[i]
            /\ Len(op.calls) - Len(own) <= 1
            /\ ~up.file_exists =>
                  /\ op.ret.kind = "str"
                  /\ op.ret.text = <<"Error", ":", "File", "not", "found", "at">>
            /\ steps = 1 => FailedAt(up.slotReply, <<"Error", "requesting", "upload", "slot", ":">>)
            /\ steps = 2 => FailedAt(up.uploadReply, <<"Error", "uploading", "file", ":">>)
            /\ steps = 3 =>
                  /\ FailedAt(up.submissionReply, <<"Error", "creating", "submission", ":">>)
                  /\ op.ret.class = "report" =>
                         op.ret.data.file_ids = <<up.uploadReply.body.id>>
            /\ (steps >= 1 /\ steps < 3) => op.ret.class # "report"

\* C22 witness: the slot and the upload succeeded, the submission with file 6 failed
C22_Witness ==
    /\ op.name = "submit_file_for_student"
    /\ Len(OwnCalls(op)) = 3
    /\ op.input.args.uploadReply = OkReply(FileObj(6))
    /\ op.input.args.submissionReply = HttpError(404)
    /\ op.ret.class = "error"
    /\ op.ret.text = <<"Error", "creating", "submission", ":">>

\* the sections a status report can end with
Download == <<"Report Complete!", "Download URL:">>

StillGenerating == <<"Report is still generating...">>

GenerationFailed == <<"Report generation failed!", "Error:">>

CurrentStatus == <<"Current status:">>

\* C23: a status check that succeeded ends with exactly one of four
\* sections: the download URL iff the status is "complete" and the response
\* carries a non-empty attachment, "still generating" for "running", the
\* failure message for "error", and "Current status: <status>" in every
\* other case, "complete" without attachment included.
C23_OneOutcomePerStatus ==
    (op.name = "get_report_status" /\ op.ret.class = "report") =>
        LET body == op.input.args.upstream.body
            status == IF "status" \in DOMAIN body THEN body.status ELSE "unknown"
            attached == "attachment" \in DOMAIN body /\ body.attachment \notin {"null", "empty"}
            lines == op.ret.data.lines
        IN  /\ lines \in {Download, StillGenerating, GenerationFailed, CurrentStatus}
            /\ lines = Download <=> (status = "complete" /\ attached)
            /\ lines = StillGenerating <=> status = "running"
            /\ lines = GenerationFailed <=> status = "error"
            /\ lines = CurrentStatus <=>
                   (status \notin {"running", "error"} /\ ~(status = "complete" /\ attached))
            /\ op.ret.data.status = status

\* C23 witness: a complete report whose attachment is empty shows its status only
C23_Witness ==
    /\ op.name = "get_report_status"
    /\ op.ret.class = "report"
    /\ op.input.args.upstream.body = ReportObj("complete", "empty")
    /\ op.ret.data.lines = CurrentStatus

\* the invocation returned a text that names its course
ShowsCourse(o) == o.layer = "tool" /\ o.ret.kind = "str" /\ o.ret.display # None

\* the handlers that print the resolved id and never ask for the code
PrintsCourseId == {"enroll_user", "submit_file_for_student"}

\* the id the Resolver gave for the identifier of the invocation, read from
\* the cache as the invocation left it: None when the code matched no course
ResolvedId(o) ==
    IF IsNumeric(o.input.course_identifier) THEN o.input.course_identifier
    ELSE IF o.input.course_identifier.s \in DOMAIN cache
    THEN IntId(cache[o.input.course_identifier.s])
    ELSE None

\* the codes the cache holds for the id
KnownCodes(id) == {StrId(code) : code \in {x \in DOMAIN cache : cache[x] = id.s}}

Holds(assignment, key) ==
    "submission" \in DOMAIN assignment /\ key \in DOMAIN assignment.submission

\* the score of the submission is a number, not null
Scored(assignment) == Holds(assignment, "score") /\ assignment.submission.score.t = "num"

\* C25: get_student_assignment_data counts every assignment of the response
\* once, as Submitted iff its submission has a score or a submitted_at and
\* as Missing otherwise, so Submitted + Missing = Total Assignments; Late
\* counts the scored submissions marked late, so Late <= Submitted.
C25_SubmittedPlusMissingIsTotal ==
    (op.name = "get_student_assignment_data" /\ op.ret.class = "report") =>
        LET rows == op.input.args.upstream.body.items
            d == op.ret.data
            submitted == {i \in 1..Len(rows) :
                             Scored(rows[i]) \/ Holds(rows[i], "submitted_at")}
            late == {i \in 1..Len(rows) : Scored(rows[i]) /\ Holds(rows[i], "late")
                                            /\ rows[i].submission.late}
        IN  /\ d.total_assignments = Len(rows)
            /\ d.submitted_count = Cardinality(submitted)
            /\ d.missing_count = Len(rows) - Cardinality(submitted)
            /\ d.submitted_count + d.missing_count = d.total_assignments
            /\ d.late_count = Cardinality(late)
            /\ d.late_count <= d.submitted_count

\* C25 witness: one assignment submitted late and not yet scored, one whose
\* submission holds neither field: Submitted 1, Missing 1, Late 0
C25_Witness ==
    /\ op.name = "get_student_assignment_data"
    /\ op.ret.class = "report"
    /\ op.input.args.upstream.body.items =
           << [points_possible |-> Num(10), submission |-> [submitted_at |-> TRUE, late |-> TRUE]],
              [points_possible |-> Num(10), submission |-> [late |-> TRUE]] >>
    /\ op.ret.data.submitted_count = 1
    /\ op.ret.data.missing_count = 1
    /\ op.ret.data.late_count = 0

\* the PUTs of the invocation, in the order they were issued
Puts(o) == SelectSeq(o.calls, LAMBDA call : call.method = "put")

\* C26: with dry_run = False a grading issues exactly one PUT per graded
\* student id, to the submissions endpoint, goes on after a PUT that failed,
\* and reports successful + failed = the number of graded student ids, with
\* failed the number of PUTs that returned a Failure.
C26_OnePutPerStudent ==
    (Graded(op) /\ ~op.input.args.dry_run) =>
        LET d == op.ret.data
            n == Cardinality(IdsIn(op.input.args.studentPages))
            puts == Puts(op)
        IN  /\ Len(d.student_ids) = n
            /\ Len(puts) = n
            /\ \A i \in 1..n :
                  /\ puts[i].path =
                        "/courses/{course_id}/assignments/{assignment_id}/submissions/{student_id}"
                  /\ puts[i].ok <=> op.input.args.putReplies[i].t = "ok"
            /\ d.failed = Cardinality({i \in 1..n : ~puts[i].ok})
            /\ d.successful = Cardinality({i \in 1..n : puts[i].ok})
            /\ d.successful + d.failed = n
            /\ ~MarkedDryRun(op)

\* C26 witness: the first PUT failed and the second student was graded all the same
C26_Witness ==
    /\ Graded(op)
    /\ ~op.input.args.dry_run
    /\ Len(Puts(op)) = 2
    /\ ~Puts(op)[1].ok
    /\ Puts(op)[2].ok
    /\ op.ret.data.successful = 1
    /\ op.ret.data.failed = 1

\* every page of the fetch succeeded
FetchedAll(pages) == \A i \in 1..Len(pages) : pages[i].t = "ok"

\* the positions, in the list fetched, of the published assignments
PublishedAt(assignments) == {k \in 1..Len(assignments) : assignments[k].published}

\* the j-th published assignment of the list
NthPublished(assignments, j) ==
    assignments[CHOOSE k \in PublishedAt(assignments) :
                    Cardinality({m \in PublishedAt(assignments) : m < k}) = j - 1]

\* what the export shows for a student under an assignment: the score of the
\* student's last submission in the collection fetched, nothing without one
CellOf(sid, pages) ==
    LET subs == IF FetchedAll(pages) THEN AllItems(pages) ELSE <<>>
        mine == {m \in 1..Len(subs) :
                    "user_id" \in DOMAIN subs[m] /\ str(subs[m].user_id) = sid}
        last == CHOOSE m \in mine : \A n \in mine : n <= m
    IN  IF mine = {} THEN Blank
        ELSE IF "score" \in DOMAIN subs[last] /\ subs[last].score.t = "num"
        THEN subs[last].score
        ELSE Blank

\* export_grades found the students of the course, at least one
ExportedStudents(o) ==
    /\ o.name = "export_grades"
    /\ FetchedAll(o.input.args.studentPages)
    /\ AllItems(o.input.args.studentPages) # <<>>

\* C27: with at least one enrolled student export_grades fetches the
\* students, then the assignments, then the submissions of each published
\* assignment once, in assignment order, and nothing else: 2 + P fetches; an
\* unpublished assignment has no fetch and no column; the CSV has one row
\* per element of the student list, and a cell holds the score of the
\* row's student only, so a submission of anybody else changes nothing.
C27_OneFetchPerPublishedAssignment ==
    ExportedStudents(op) =>
        LET up == op.input.args
            student_list == AllItems(up.studentPages)
            all == IF FetchedAll(up.assignmentPages) THEN AllItems(up.assignmentPages) ELSE <<>>
            P == Cardinality(PublishedAt(all))
            own == OwnCalls(op)
            Phase(call) ==
                IF call.path = "/courses/{course_id}/users" THEN 1
                ELSE IF call.path = "/courses/{course_id}/assignments" THEN 2
                ELSE 2 + (CHOOSE j \in 1..P :
                              call.path = SubmissionsPath(NthPublished(all, j)))
        IN  /\ Len(CallsOn(op, "/courses/{course_id}/users")) = PagesFetched(up.studentPages)
            /\ Len(CallsOn(op, "/courses/{course_id}/assignments"))
                  = PagesFetched(up.assignmentPages)
            /\ \A j \in 1..P :
                  Len(CallsOn(op, SubmissionsPath(NthPublished(all, j))))
                      = PagesFetched(up.submissionPages[j])
            /\ \A k \in (1..Len(all)) \ PublishedAt(all) :
                  CallsOn(op, SubmissionsPath(all[k])) = <<>>
            /\ Len(own) = PagesFetched(up.studentPages) + PagesFetched(up.assignmentPages)
                          + Sum([j \in 1..P |-> PagesFetched(up.submissionPages[j])])
            /\ \A i \in 1..Len(own) :
                  /\ own[i].method = "get"
                  /\ \A n \in 1..Len(own) : i < n => Phase(own[i]) <= Phase(own[n])
            /\ (FetchedAll(up.assignmentPages) /\ up.format = "csv") =>
                  /\ op.ret.class = "report"
                  /\ op.ret.data.header = [j \in 1..P |-> str(NthPublished(all, j).id)]
                  /\ Len(op.ret.data.rows) = Len(student_list)
                  /\ \A i \in 1..Len(student_list) :
                        /\ op.ret.data.rows[i].sid = str(student_list[i].id)
                        /\ op.ret.data.rows[i].cells
                              = [j \in 1..P |-> CellOf(str(student_list[i].id),
                                                       up.submissionPages[j])]

\* C27 witness: three student records, an unpublished assignment between
\* two published ones, a stranger's submission under the first and two
\* pages of submissions of student 1 under the other
C27_Witness ==
    /\ ExportedStudents(op)
    /\ op.input.args.format = "csv"
    /\ AllItems(op.input.args.studentPages) = <<[id |-> 2], [id |-> 1], [id |-> 2]>>
    /\ Len(AllItems(op.input.args.assignmentPages)) = 3
    /\ op.input.args.submissionPages[1] =
          <<OkReply(Arr(<<[user_id |-> 9, score |-> Num(5)], [user_id |-> 2, score |-> JNull]>>))>>
    /\ Len(op.input.args.submissionPages[2]) = 2
    /\ Len(OwnCalls(op)) = 5
    /\ op.ret.data.header = << <<"1">>, <<"3">> >>
    /\ Len(op.ret.data.rows) = 3
    /\ op.ret.data.rows[1].cells = <<Blank, Blank>>
    /\ op.ret.data.rows[2].cells = <<Blank, Num(4)>>

\* get_discussion_participation_summary read the students, the entries and
\* the topic
Summarised(o) ==
    /\ o.name = "get_discussion_participation_summary"
    /\ FetchedAll(o.input.args.upstream.studentPages)
    /\ FetchedAll(o.input.args.upstream.entryPages)
    /\ \/ o.input.args.upstream.topicReply.t # "ok"
       \/ o.input.args.upstream.topicReply.body.k = "object"

\* the /view reply is a 2xx object
ViewServed(reply) == reply.t = "ok" /\ reply.body.k = "object"

\* the user wrote a reply that the /view reply shows
InView(reply, sid) ==
    /\ Returned(reply, "view")
    /\ \E i \in 1..Len(reply.body.items) :
          \E j \in 1..Len(list_get(reply.body.items[i], "replies")) :
              str_get(list_get(reply.body.items[i], "replies")[j], "user_id") = sid

\* C28: the summary is returned whatever the /view call gives; after the
\* merge a user's reply count is the count from the entries' recent_replies
\* when that is positive, 1 when it is 0 and the view shows a reply of the
\* user, and 0 otherwise; post counts are those of the entries; a /view
\* reply that is a Failure, or not an object, changes no count.
C28_ViewOnlyFillsZeroReplyCounts ==
    Summarised(op) =>
        LET up == op.input.args.upstream
            entries == AllItems(up.entryPages)
            p == op.ret.data.participation
        IN  /\ op.ret.class = "report"
            /\ \A n \in 1..9 :
                  LET sid == str(n)
                      posts == PostsBy(entries, sid)
                      replies == RepliesBy(entries, sid)
                      merged == participation_of(p, sid)
                  IN  /\ merged.posts = posts
                      /\ merged.replies =
                            IF replies > 0 THEN replies
                            ELSE IF InView(up.viewReply, sid) THEN 1 ELSE 0
                      /\ ~ViewServed(up.viewReply) => merged.replies = replies
                      /\ sid \in DOMAIN p <=>
                            posts > 0 \/ replies > 0 \/ InView(up.viewReply, sid)

\* C28 witness: user 2 has two recent replies and stays at two, user 1 has
\* none and is seen once in the view, user 3 is known from the view only
C28_Witness ==
    /\ Summarised(op)
    /\ op.input.args.upstream.viewReply =
          OkReply(ListObj("view", <<[replies |-> <<[user_id |-> 1], [user_id |-> 3]>>],
                                    [id |-> 9]>>))
    /\ participation_of(op.ret.data.participation, <<"2">>) = [posts |-> 0, replies |-> 2]
    /\ participation_of(op.ret.data.participation, <<"1">>) = [posts |-> 2, replies |-> 1]
    /\ participation_of(op.ret.data.participation, <<"3">>) = [posts |-> 0, replies |-> 1]

\* the page requests of one paginated fetch, as the replies served decide
FetchOf(path, pages) == [i \in 1..PagesFetched(pages) |-> Attempt("get", path, pages[i])]

RECURSIVE SubmissionFetches(_, _, _)
\* the submissions fetches from the j-th published assignment on
SubmissionFetches(assignments, submissionPages, j) ==
    IF j > Cardinality(PublishedAt(assignments)) THEN <<>>
    ELSE FetchOf(SubmissionsPath(NthPublished(assignments, j)), submissionPages[j])
         \o SubmissionFetches(assignments, submissionPages, j + 1)

\* the calls of export_discussion_data, read off the replies alone
DiscussionExportCalls(up) ==
    <<Attempt("get", "/courses/{course_id}/discussion_topics/{topic_id}", up.topicReply)>>
    \o (IF up.topicReply.t = "ok" /\ up.topicReply.body.k # "object" THEN <<>>
        ELSE FetchOf("/courses/{course_id}/discussion_topics/{topic_id}/entries",
                     up.entryPages))

\* the calls of export_grades, read off the replies alone
GradeExportCalls(up) ==
    FetchOf("/courses/{course_id}/users", up.studentPages)
    \o (IF ~FetchedAll(up.studentPages) THEN <<>>
        ELSE FetchOf("/courses/{course_id}/assignments", up.assignmentPages)
             \o (IF ~FetchedAll(up.assignmentPages) \/ AllItems(up.studentPages) = <<>>
                 THEN <<>>
                 ELSE SubmissionFetches(AllItems(up.assignmentPages), up.submissionPages, 1)))

\* the replies let export_discussion_data, or export_grades, produce its export
Exportable(o) ==
    \/ /\ o.name = "export_discussion_data"
       /\ o.input.args.topicReply.t = "ok" => o.input.args.topicReply.body.k = "object"
       /\ FetchedAll(o.input.args.entryPages)
    \/ /\ o.name = "export_grades"
       /\ FetchedAll(o.input.args.studentPages)
       /\ FetchedAll(o.input.args.assignmentPages)
       /\ AllItems(o.input.args.studentPages) # <<>>

\* C29: the two exports never reject a format: "csv" gives the CSV export
\* and every other value the summary, whenever the replies allow an export
\* at all; the Gateway calls of the handler are decided by the replies
\* alone, whatever the format; the summary of export_discussion_data
\* counts every entry as a post and every recent reply as a reply, and its
\* total of interactions is the sum of the two.
C29_FormatIsNotValidated ==
    op.name \in {"export_discussion_data", "export_grades"} =>
        LET up == op.input.args
        IN  /\ op.ret.class # "validation"
            /\ OwnCalls(op) = IF op.name = "export_grades" THEN GradeExportCalls(up)
                              ELSE DiscussionExportCalls(up)
            /\ op.ret.class = "report" <=> Exportable(op)
            /\ Exportable(op) =>
                  op.ret.text[2] = IF up.format = "csv" THEN "Export" ELSE "Summary"
            /\ (op.name = "export_discussion_data" /\ Exportable(op) /\ up.format # "csv") =>
                  LET entries == AllItems(up.entryPages)
                      d == op.ret.data
                  IN  /\ d.total_entries = Len(entries)
                      /\ d.total_replies =
                            Cardinality(UNION {{<<i, j>> :
                                j \in 1..Len(list_get(entries[i], "recent_replies"))} :
                                i \in 1..Len(entries)})
                      /\ d.total_interactions = d.total_entries + d.total_replies
            /\ (op.name = "export_discussion_data" /\ Exportable(op) /\ up.format = "csv") =>
                  Len(op.ret.data.rows) =
                      Len(AllItems(up.entryPages))
                      + Cardinality(UNION {{<<i, j>> :
                            j \in 1..Len(list_get(AllItems(up.entryPages)[i], "recent_replies"))} :
                            i \in 1..Len(AllItems(up.entryPages))})

\* C29 witness: format "json" gives the summary of a topic with two posts
\* and one reply
C29_Witness ==
    /\ op.name = "export_discussion_data"
    /\ op.input.args.format = "json"
    /\ op.ret.class = "report"
    /\ op.ret.text = <<"Discussion", "Summary", ":">>
    /\ Len(OwnCalls(op)) = 2
    /\ op.ret.data.total_entries = 2
    /\ op.ret.data.total_replies = 1
    /\ op.ret.data.total_interactions = 3

\* the (category, name) pairs list_available_templates reports
Listed ==
    UNION {{<<list_available_templates[i][1], list_available_templates[i][2][j]>> :
               j \in 1..Len(list_available_templates[i][2])} :
              i \in 1..Len(list_available_templates)}

\* the replacement fields of a template's subject and body
FieldsOf(template) ==
    UNION {{template[part][i].var :
               i \in {k \in 1..Len(template[part]) : "var" \in DOMAIN template[part][k]}} :
              part \in DOMAIN template \cap {"subject", "body"}}

\* no replacement field is left in the text
Filled(text) == \A i \in 1..Len(text) : DOMAIN text[i] = {"lit"}

\* C30: every (category, name) that list_available_templates reports is
\* served by get_template with a subject and a body; for any other
\* category or name get_template and get_formatted_template return None
\* and raise nothing; format_template raises nothing but ValueError, and
\* raises it, as a missing template variable, whenever a field of the
\* template is not among the variables supplied; with every field supplied
\* a served template comes back with subject and body filled in.
C30_TemplateLookupIsConsistent ==
    /\ op.name = "list_available_templates" =>
          \A pair \in Listed :
              LET template == get_template(pair[1], pair[2])
              IN  template # None /\ {"subject", "body"} \subseteq DOMAIN template
    /\ op.name = "get_template" =>
          /\ op.ret.kind = "return"
          /\ IF <<op.input.category, op.input.template_name>> \in Listed
             THEN {"subject", "body"} \subseteq DOMAIN op.ret.value
             ELSE op.ret.value = None
    /\ op.name = "get_formatted_template" =>
          /\ <<op.input.category, op.input.template_name>> \notin Listed =>
                op.ret = Value(None)
          /\ <<op.input.category, op.input.template_name>> \in Listed =>
                op.ret = format_template(
                             get_template(op.input.category, op.input.template_name),
                             op.input.variables)
          /\ op.ret.kind = "raise" => op.ret.exc = "ValueError"
    /\ op.name = "format_template" =>
          LET missing == FieldsOf(op.input.template) \ DOMAIN op.input.variables
          IN  /\ op.ret.kind = "raise" => op.ret.exc = "ValueError"
              /\ missing # {} =>
                    /\ op.ret.kind = "raise"
                    /\ op.ret.exc = "ValueError"
              /\ (missing # {} /\ \E pair \in Listed :
                                     op.input.template = get_template(pair[1], pair[2])) =>
                    /\ op.ret.text = <<"Missing", "template", "variable", ":">>
                    /\ op.ret.key \in missing
              /\ (missing = {} /\ \E pair \in Listed :
                                     op.input.template = get_template(pair[1], pair[2])) =>
                    /\ op.ret.kind = "return"
                    /\ Filled(op.ret.value.subject)
                    /\ Filled(op.ret.value.body)

\* C30 witness: the discussion reminder formatted with the default
\* variables, which lack discussion_title, raised ValueError
C30_Witness ==
    /\ op.name = "format_template"
    /\ op.input.template = get_template("discussion", "participation_reminder")
    /\ op.input.variables = create_default_variables
    /\ op.ret.kind = "raise"
    /\ op.ret.exc = "ValueError"
    /\ op.ret.key = "discussion_title"

(* ---------------------- Gateway and resolver claims ------------------- *)

AllPagesOk(pages) == \A i \in 1..Len(pages) : pages[i].t = "ok"

PageLen(pages, i) == Len(pages[i].body.items)

RECURSIVE Offset(_, _)
\* how many elements the pages before page i hold
Offset(pages, i) == IF i <= 1 THEN 0 ELSE Offset(pages, i - 1) + PageLen(pages, i - 1)

\* the first page that fails, 0 if none does
FirstFailing(pages) ==
    LET bad == {i \in 1..Len(pages) : pages[i].t # "ok"}
    IN  IF bad = {} THEN 0 ELSE CHOOSE i \in bad : \A j \in bad : i <= j

C6_FetchAllFailureDiscardsPartial ==
    (op.name = "fetch_all_paginated_results" /\ ~AllPagesOk(op.input)) =>
        LET k == FirstFailing(op.input)
        IN  /\ Len(op.calls) = k
            /\ op.ret = Failure(ErrorMessage(op.input[k]))
            /\ op.ret.payload.items = <<>>

\* C6 witness: page 1 delivered elements, page 2 failed, a page 3 existed
C6_Witness ==
    /\ op.name = "fetch_all_paginated_results"
    /\ Len(op.input) = 3
    /\ FirstFailing(op.input) = 2
    /\ PageLen(op.input, 1) > 0
    /\ op.ret.tag = "Failure"

\* C7: resolving a numeric identifier (an integer or an all-digit string)
\* returns the identifier unchanged, makes no network attempt and leaves
\* the cache as it was.
C7_NumericResolveIsPure ==
    [][(op'.name = "get_course_id" /\ IsNumeric(op'.input)) =>
          /\ op'.ret = op'.input
          /\ op'.calls = <<>>
          /\ cache' = cache]_vars

\* C7 witness: an all-digit string was resolved while the cache held entries
C7_Witness ==
    /\ op.name = "get_course_id"
    /\ op.input.t = "str"
    /\ isdigit(op.input.s)
    /\ DOMAIN cache # {}

\* C8: once a code is resolved it stays resolved to the same id: every step
\* keeps every cache entry, a successful resolve of a code leaves the code
\* cached with the id it returned, and a resolve of a cached code makes no
\* network attempt and returns the cached id.
C8_SecondResolveHitsCache ==
    [][/\ \A c \in DOMAIN cache : c \in DOMAIN cache' /\ cache'[c] = cache[c]
       /\ (op'.name = "get_course_id" /\ ~IsNumeric(op'.input) /\ op'.ret # None) =>
              /\ op'.input.s \in DOMAIN cache'
              /\ op'.ret = IntId(cache'[op'.input.s])
       /\ (op'.name = "get_course_id" /\ ~IsNumeric(op'.input)
           /\ op'.input.s \in DOMAIN cache) =>
              /\ op'.calls = <<>>
              /\ op'.ret = IntId(cache[op'.input.s])]_vars

\* C8 witness: a course code was resolved without any network attempt
C8_Witness ==
    /\ op.name = "get_course_id"
    /\ ~IsNumeric(op.input)
    /\ op.calls = <<>>
    /\ op.ret # None

\* the code the operation was asked to resolve
ResolvedCode(o) ==
    IF o.layer = "tool" THEN o.input.course_identifier.s ELSE o.input.s

\* C11: the identifier cache only grows and only resolve writes it: every
\* step keeps every entry with its id, a step that changes the cache is a
\* resolve (called directly or by a tool handler) that searched upstream and
\* adds the one code it was asked for, and display_code leaves the cache as
\* it was.
C11_CacheOnlyGrows ==
    [][/\ \A k \in DOMAIN cache : k \in DOMAIN cache' /\ cache'[k] = cache[k]
       /\ cache' # cache =>
              /\ op'.layer = "tool" \/ op'.name = "get_course_id"
              /\ op'.calls # <<>>
              /\ op'.calls[1].method = "get" /\ op'.calls[1].path = "/courses"
              /\ op'.calls[1].ok
              /\ ResolvedCode(op') \notin DOMAIN cache
              /\ DOMAIN cache' = DOMAIN cache \cup {ResolvedCode(op')}
       /\ op'.name = "get_course_code" => cache' = cache]_vars

\* C11 witness: a tool handler's resolve added a second code to the cache
C11_Witness ==
    /\ op.layer = "tool"
    /\ op.calls # <<>>
    /\ op.calls[1].path = "/courses"
    /\ op.input.course_identifier.s \in DOMAIN cache
    /\ Cardinality(DOMAIN cache) = 2

\* C9: display_code(resolve(c)) = c for every code c resolved through the
\* upstream search: for each cached code, and for the code just resolved,
\* the reverse lookup of its id gives the code back.
C9_RoundTrip ==
    /\ \A c \in DOMAIN cache : get_course_code(cache, IntId(cache[c])) = StrId(c)
    /\ (op.name = "get_course_id" /\ ~IsNumeric(op.input) /\ op.ret # None) =>
           get_course_code(cache, op.ret) = StrId(op.input.s)

\* C9 witness: a code was resolved by a search while another was cached
C9_Witness ==
    /\ op.name = "get_course_id"
    /\ Len(op.calls) = 1
    /\ op.ret # None
    /\ Cardinality(DOMAIN cache) >= 2

\* C10: a request makes exactly one network attempt, failed or not, and a
\* non-2xx response or transport exception comes back as the Failure value
\* carrying its message; a paginated fetch makes one attempt per page asked.
C10_RequestOnceNoRaise ==
    /\ op.name = "make_canvas_request" =>
           /\ Len(op.calls) = 1
           /\ op.calls[1].ok = (op.input.t = "ok")
           /\ op.ret = IF op.input.t = "ok" THEN Success(op.input.body)
                       ELSE Failure(ErrorMessage(op.input))
    /\ op.name = "fetch_all_paginated_results" =>
           Len(op.calls) = IF AllPagesOk(op.input) THEN Len(op.input)
                           ELSE FirstFailing(op.input)

\* C10 witness: a request that got a non-2xx response
C10_Witness ==
    /\ op.name = "make_canvas_request"
    /\ op.input.t = "http"
    /\ Len(op.calls) = 1
    /\ op.ret.tag = "Failure"

====
